---- MODULE Spec2Model ----
(***************************************************************************)
(* A model of the biosim4 per-generation simulation engine: the grid, the  *)
(* population container with its deferred move and death queues, the       *)
(* pheromone layer, the OpenMP step scheduler and the generation boundary. *)
(*                                                                         *)
(* Specifications:                                                         *)
(*   Spec      the simulator() loop: a team of threads ticking agents,     *)
(*             the serial step boundary and the generation boundary        *)
(*   SpecPeeps the Peeps queue interface driven by arbitrary callers       *)
(*   SpecSig   Signals::increment executed by concurrent threads           *)
(*   SpecSurv  passedSurvivalCriterion and the parent collection           *)
(*   SpecNet   createWiringFromGenome followed by one feedForward          *)
(*   SpecLayer the Signals interface: increment and fade called directly   *)
(*   SpecLib   single calls of visitNeighborhood and Dir::rotate           *)
(*   SpecChild generateChildGenome, followed phase by phase                *)
(*   SpecGen   one generation run by a single thread, the locations at     *)
(*             every step boundary kept in boundaryLog                     *)
(*   SpecFlip  single calls of randomBitFlip                               *)
(*   SpecSpawn single calls of spawnNewGeneration, altruism included       *)
(***************************************************************************)
EXTENDS Integers, Sequences, FiniteSets, TLC

VARIABLES
  p,                 \* parameterMngrSingleton (g_params)
  grid,              \* World::grid: cell -> EMPTY | BARRIER | individual index
  peeps,             \* Peeps::individuals, indices 1..population
  deathQueue,        \* Peeps::deathQueue
  moveQueue,         \* Peeps::moveQueue
  pheromones,        \* World::pheromones, layer 0
  runMode,           \* Types::runMode
  currentGeneration, \* simulator(): currentGeneration
  murderCount,       \* simulator(): murderCount
  pc,                \* per thread: position in the parallel region
  simulationStep,    \* per thread: the private loop counter
  forDone,           \* iterations of the current "omp for" already handed out
  singleBy,          \* thread executing the current "omp single", 0 if none yet
  bpc,               \* position inside endOfSimulationStep
  boundaryLog,       \* operations endOfSimulationStep has performed this step
  parents,           \* spawnNewGeneration(): the parent list it collected
  verdict,           \* passedSurvivalCriterion result per individual
  sig,               \* state of the threads inside Signals::increment
  genome,            \* Individual::genome of the individual being wired
  nnet,              \* Individual::nnet: connections and neurons
  ff,                \* Individual::feedForward: the locals of one call
  call               \* the library call under test: its arguments and result

vars == <<p, grid, peeps, deathQueue, moveQueue, pheromones, runMode,
          currentGeneration, murderCount, pc, simulationStep, forDone,
          singleBy, bpc, boundaryLog, parents, verdict, sig,
          genome, nnet, ff, call>>

\* the variables of the library harnesses, and their value when unused
harness == <<genome, nnet, ff, call>>

NoHarness ==
  /\ genome = << >>
  /\ nnet = << >>
  /\ ff = << >>
  /\ call = << >>

(***************************************************************************)
(* Bounds of the model.                                                    *)
(***************************************************************************)
SimSizeX == 2
SimSizeY == 2
SimPopulation == 2
SimSteps == 2
SimGenerations == 2
SimThreads == 2
SimDirs == 1

(***************************************************************************)
(* Program constants.                                                      *)
(***************************************************************************)
EMPTY == 0
BARRIER == 65535
SIGNAL_MAX == 255
NUM_ACTIONS == 16
KILL_FORWARD == 17

CHALLENGE_CIRCLE == 0
CHALLENGE_RIGHT_HALF == 1
CHALLENGE_RIGHT_QUARTER == 2
CHALLENGE_STRING == 3
CHALLENGE_CENTER_WEIGHTED == 4
CHALLENGE_CENTER_UNWEIGHTED == 40
CHALLENGE_CORNER == 5
CHALLENGE_CORNER_WEIGHTED == 6
CHALLENGE_MIGRATE_DISTANCE == 7
CHALLENGE_CENTER_SPARSE == 8
CHALLENGE_LEFT_EIGHTH == 9
CHALLENGE_RADIOACTIVE_WALLS == 10
CHALLENGE_AGAINST_ANY_WALL == 11
CHALLENGE_TOUCH_ANY_WALL == 12
CHALLENGE_EAST_WEST_EIGHTHS == 13
CHALLENGE_NEAR_BARRIER == 14
CHALLENGE_PAIRS == 15
CHALLENGE_LOCATION_SEQUENCE == 16
CHALLENGE_ALTRUISM == 17
CHALLENGE_ALTRUISM_SACRIFICE == 18

(***************************************************************************)
(* Geometry: Compass, Dir, Coordinate.                                     *)
(***************************************************************************)
SW == 0
S == 1
SE == 2
W == 3
CENTER == 4
E == 5
NW == 6
N == 7
NE == 8

Min(a, b) == IF a < b THEN a ELSE b
Max(a, b) == IF a > b THEN a ELSE b

Coordinate(x0, y0) == [x |-> x0, y |-> y0]

CoordAdd(a, b) == Coordinate(a.x + b.x, a.y + b.y)

CoordSub(a, b) == Coordinate(a.x - b.x, a.y - b.y)

\* (int)sqrt(v) for v >= 0
ISqrt(v) == CHOOSE r \in 0..v : r * r <= v /\ (r + 1) * (r + 1) > v

Length(c) == ISqrt(c.x * c.x + c.y * c.y)

rotations ==
  << SW, W, NW, N, NE, E, SE, S,
     S, SW, W, NW, N, NE, E, SE,
     SE, S, SW, W, NW, N, NE, E,
     W, NW, N, NE, E, SE, S, SW,
     CENTER, CENTER, CENTER, CENTER, CENTER, CENTER, CENTER, CENTER,
     E, SE, S, SW, W, NW, N, NE,
     NW, N, NE, E, SE, S, SW, W,
     N, NE, E, SE, S, SW, W, NW,
     NE, E, SE, S, SW, W, NW, N >>

\* rotate() using the magnitude of n only
RotateIgnoringSign(d, n) ==
  rotations[d * 8 + ((IF n < 0 THEN -n ELSE n) % 8) + 1]

\* Dir::rotate: rotations[asInt() * 8 + (n & 7)]
Rotate(d, n) == rotations[d * 8 + (n % 8) + 1]

NormalizedCoords ==
  << Coordinate(-1, -1), Coordinate(0, -1), Coordinate(1, -1),
     Coordinate(-1, 0), Coordinate(0, 0), Coordinate(1, 0),
     Coordinate(-1, 1), Coordinate(0, 1), Coordinate(1, 1) >>

AsNormalizedCoord(d) == NormalizedCoords[d + 1]

conversion ==
  << S, CENTER, SW, N, SE, E, N, N, N, N, W, NW, N, NE, N, N >>

B2I(b) == IF b THEN 1 ELSE 0

\* asDir() answering CENTER for every offset
AsDirOfNothing(c) == CENTER

\* Coordinate::asDir
AsDir(c) ==
  LET xp == c.x * 33461 + c.y * 13860
      yp == c.y * 33461 - c.x * 13860
  IN  conversion[B2I(yp > 0) * 8 + B2I(xp > 0) * 4 + B2I(yp > xp) * 2
                 + B2I(yp >= -xp) + 1]

\* Dir::random8: every value Dir(N).rotate(randomUint(0, 7)) can take
Random8 == { Rotate(N, n) : n \in 0..7 }

\* the draws of randomUint(0, 7) the model explores
Random8Draws == { Rotate(N, n) : n \in 0..(SimDirs - 1) }

(***************************************************************************)
(* Grid.                                                                   *)
(***************************************************************************)
Cells == { Coordinate(x, y) : x \in 0..(p.gridSize_X - 1),
                              y \in 0..(p.gridSize_Y - 1) }

IsInBounds(loc) ==
  loc.x >= 0 /\ loc.x < p.gridSize_X /\ loc.y >= 0 /\ loc.y < p.gridSize_Y

IsEmptyAt(g, loc) == g[loc] = EMPTY

IsBarrierAt(g, loc) == g[loc] = BARRIER

IsOccupiedAt(g, loc) == g[loc] # EMPTY /\ g[loc] # BARRIER

IsBorder(loc) ==
  loc.x = 0 \/ loc.x = p.gridSize_X - 1 \/ loc.y = 0 \/ loc.y = p.gridSize_Y - 1

GridZeroFill == [c \in Cells |-> EMPTY]

Indices == 1..p.population


\* a column of visitNeighborhood with the full extent at every dx: the
\* square block instead of the disc
VisitColumnOfSquare(loc, h, dx) ==
  LET extentY == h \div 2
      dyLo == -(IF extentY < loc.y THEN extentY ELSE loc.y)
      dyHi == IF extentY < (p.gridSize_Y - loc.y) - 1
              THEN extentY ELSE (p.gridSize_Y - loc.y) - 1
  IN  [k \in 1..(dyHi - dyLo + 1) |->
         [x |-> loc.x + dx, y |-> loc.y + dyLo + k - 1]]

\* visitNeighborhood: the cells in the order the callback receives them.
\* The float radius is given in half units, h = 2 * radius.
VisitColumn(loc, h, dx) ==
  LET extentY == ISqrt(h * h - 4 * dx * dx) \div 2
      dyLo == -Min(extentY, loc.y)
      dyHi == Min(extentY, (p.gridSize_Y - loc.y) - 1)
  IN  [k \in 1..(dyHi - dyLo + 1) |-> Coordinate(loc.x + dx, loc.y + dyLo + k - 1)]

RECURSIVE VisitFrom(_, _, _, _)
VisitFrom(loc, h, dx, dxHi) ==
  IF dx > dxHi THEN << >>
  ELSE VisitColumn(loc, h, dx) \o VisitFrom(loc, h, dx + 1, dxHi)

VisitNeighborhood(loc, h) ==
  VisitFrom(loc, h, -Min(h \div 2, loc.x),
            Min(h \div 2, (p.gridSize_X - loc.x) - 1))

Range(q) == { q[k] : k \in 1..Len(q) }

\* Grid::createBarrier.  Preset 0 is the empty arena: no cell is a barrier
\* and barrierCenters stays empty.  Preset 6 puts five spots of radius 5.0
\* at (gridSize_X / 2, n * (gridSize_Y / 6)), n = 1..5, and records their
\* centers in that order.
BarrierCenters ==
  IF p.barrierType = 6
  THEN [n \in 1..5 |->
          Coordinate(p.gridSize_X \div 2, n * (p.gridSize_Y \div 6))]
  ELSE << >>

\* grid.set(loc, BARRIER) for every loc of spots
SetBarrier(g, spots) == [c \in Cells |-> IF c \in spots THEN BARRIER ELSE g[c]]

CreateBarrier(g) ==
  IF p.barrierType = 6
  THEN SetBarrier(g, UNION { Range(VisitNeighborhood(BarrierCenters[n], 10)) :
                             n \in 1..5 })
  ELSE g

(***************************************************************************)
(* Signals.                                                                *)
(***************************************************************************)
SignalsZeroFill == [c \in Cells |-> 0]

\* AddSaturating without the clamp, in the width of the cell
AddWrapping(v, amount) == (v + amount) % (SIGNAL_MAX + 1)

\* one saturating addition, as both statements of Signals::increment do it
AddSaturating(v, amount) ==
  IF v < SIGNAL_MAX THEN Min(SIGNAL_MAX, v + amount) ELSE v

RECURSIVE IncrementCells(_, _, _)
IncrementCells(layer, cells, k) ==
  IF k > Len(cells) THEN layer
  ELSE IncrementCells([layer EXCEPT ![cells[k]] = AddSaturating(@, 1)],
                      cells, k + 1)

\* increment() without the statement that deposits at the center
IncrementWithoutCenter(layer, loc) ==
  IncrementCells(layer, VisitNeighborhood(loc, 3), 1)

\* Signals::increment, the whole critical section
Increment(layer, loc) ==
  LET visited == IncrementCells(layer, VisitNeighborhood(loc, 3), 1)
  IN  [visited EXCEPT ![loc] = AddSaturating(@, 2)]

\* Signals::fade: the cell is first overwritten with 0, so the decrement
\* that follows never applies.
FadeCell(v) ==
  LET cleared == 0
  IN  IF cleared >= 1 THEN cleared - 1 ELSE cleared

Fade(layer) == [c \in Cells |-> FadeCell(layer[c])]

(***************************************************************************)
(* Individual.  The compiled network is kept as "wired" (at least one      *)
(* connection) or "empty" (nnet.connections.empty()).                      *)
(***************************************************************************)
Nnets == {"wired", "empty"}

\* Individual::initialize; birthLoc is not assigned there and keeps the
\* value-initialised Coordinate() of Peeps::initialize.
\* genome_ is the genome handed in; nnet_ is what createWiringFromGenome
\* compiles from it and dir_ the value Dir::random8() returns.
Initialize(index_, loc_, genome_, nnet_, dir_) ==
  [ index |-> index_, loc |-> loc_, birthLoc |-> Coordinate(0, 0), age |-> 0,
    alive |-> TRUE, lastMoveDir |-> dir_, challengeBits |-> 0,
    genome |-> genome_, nnet |-> nnet_ ]

\* Grid::findEmptyLocation, once per individual in index order: every
\* placement the rejection sampling can produce.
PlacementsOn(arena) ==
  { f \in [Indices -> Cells] :
      /\ \A i \in Indices : IsEmptyAt(arena, f[i])
      /\ \A i, j \in Indices : i # j => f[i] # f[j] }

Placements == PlacementsOn(CreateBarrier(GridZeroFill))

\* Peeps::getIndiv(loc)
GetIndiv(g, loc) == g[loc]

(***************************************************************************)
(* Peeps: the deferred queues.                                             *)
(***************************************************************************)
\* Peeps::queueForDeath (the caller holds individual.alive)
QueueForDeath(q, index) == Append(q, index)

\* Peeps::queueForMove
QueueForMove(q, index, newLoc) == Append(q, <<index, newLoc>>)

\* a drain that takes a second request for an individual as a reprieve
KillOneOrRevive(w, index) ==
  IF w.peeps[index].alive
  THEN [ grid |-> [w.grid EXCEPT ![w.peeps[index].loc] = EMPTY],
         peeps |-> [w.peeps EXCEPT ![index].alive = FALSE] ]
  ELSE [ grid |-> [w.grid EXCEPT ![w.peeps[index].loc] = index],
         peeps |-> [w.peeps EXCEPT ![index].alive = TRUE] ]

\* one iteration of the loop of Peeps::drainDeathQueue
KillOne(w, index) ==
  [ grid |-> [w.grid EXCEPT ![w.peeps[index].loc] = EMPTY],
    peeps |-> [w.peeps EXCEPT ![index].alive = FALSE] ]

RECURSIVE DrainDeathFrom(_, _, _)
DrainDeathFrom(w, q, k) ==
  IF k > Len(q) THEN w ELSE DrainDeathFrom(KillOne(w, q[k]), q, k + 1)

\* Peeps::drainDeathQueue on the world w = [grid, peeps]
DrainDeathQueue(w, q) == DrainDeathFrom(w, q, 1)

\* drainMoveQueue without the isEmptyAt test
MoveOneUnchecked(w, moveRecord) ==
  LET indiv == w.peeps[moveRecord[1]]
      newLoc == moveRecord[2]
  IN  IF indiv.alive
      THEN [ grid |-> [w.grid EXCEPT ![indiv.loc] = EMPTY,
                                     ![newLoc] = indiv.index],
             peeps |-> [w.peeps EXCEPT ![indiv.index].loc = newLoc] ]
      ELSE w

\* one iteration of the loop of Peeps::drainMoveQueue
MoveOne(w, moveRecord) ==
  LET indiv == w.peeps[moveRecord[1]]
      newLoc == moveRecord[2]
      moveDir == AsDir(CoordSub(newLoc, indiv.loc))
  IN  IF indiv.alive /\ IsEmptyAt(w.grid, newLoc)
      THEN [ grid |-> [w.grid EXCEPT ![indiv.loc] = EMPTY, ![newLoc] = indiv.index],
             peeps |-> [w.peeps EXCEPT ![indiv.index].loc = newLoc,
                                       ![indiv.index].lastMoveDir = moveDir] ]
      ELSE w

RECURSIVE DrainMoveFrom(_, _, _)
DrainMoveFrom(w, q, k) ==
  IF k > Len(q) THEN w ELSE DrainMoveFrom(MoveOne(w, q[k]), q, k + 1)

\* drainMoveQueue serving the newest record first
DrainMoveQueueNewestFirst(w, q) ==
  DrainMoveFrom(w, [k \in 1..Len(q) |-> q[Len(q) + 1 - k]], 1)

\* Peeps::drainMoveQueue on the world w = [grid, peeps]
DrainMoveQueue(w, q) == DrainMoveFrom(w, q, 1)


(***************************************************************************)
(* Survival criterion.  A float score is kept exactly, as the fraction     *)
(* num / den with den > 0.                                                 *)
(***************************************************************************)
Result(passed_, num_, den_) == [passed |-> passed_, num |-> num_, den |-> den_]

Pass1 == Result(TRUE, 1, 1)

Fail0 == Result(FALSE, 0, 1)

\* number of cells of a visit for which grid.isOccupiedAt holds
CountOccupied(g, cells) ==
  Cardinality({ k \in 1..Len(cells) : IsOccupiedAt(g, cells[k]) })

\* distance <= radius ? {true, (radius - distance) / radius} : {false, 0.0}
\* for radius = size / divisor
Falloff(distance, size, divisor) ==
  IF divisor * distance <= size
  THEN Result(TRUE, size - divisor * distance, size)
  ELSE Fail0

OnEdge(loc) ==
  loc.x = 0 \/ loc.x = p.gridSize_X - 1 \/ loc.y = 0 \/ loc.y = p.gridSize_Y - 1

\* the occupied cells of the 3x3 block around loc other than loc itself
\* and other than skip (CHALLENGE_PAIRS)
OccupiedAround(g, loc, skip) ==
  { t \in Cells : /\ t.x >= loc.x - 1 /\ t.x <= loc.x + 1
                  /\ t.y >= loc.y - 1 /\ t.y <= loc.y + 1
                  /\ t # loc /\ t # skip /\ IsOccupiedAt(g, t) }

\* the corners in the order CHALLENGE_CORNER tests them
Corners ==
  << Coordinate(0, 0), Coordinate(0, p.gridSize_Y - 1),
     Coordinate(p.gridSize_X - 1, 0),
     Coordinate(p.gridSize_X - 1, p.gridSize_Y - 1) >>

CornerDistances(loc) == [k \in 1..4 |-> Length(CoordSub(Corners[k], loc))]

RECURSIVE PopCount(_, _)
PopCount(bits, n) ==
  IF n = 0 THEN 0 ELSE (bits % 2) + PopCount(bits \div 2, n - 1)

MinDistance(loc, centers) ==
  IF Len(centers) = 0 THEN 100000000
  ELSE LET ds == { Length(CoordSub(loc, centers[k])) : k \in 1..Len(centers) }
       IN  CHOOSE d \in ds : \A e \in ds : d <= e

PassedSurvivalCriterion(g, indiv, challenge) ==
  LET X == p.gridSize_X
      Y == p.gridSize_Y
      loc == indiv.loc
  IN
  IF ~indiv.alive THEN Fail0
  ELSE CASE challenge = CHALLENGE_CIRCLE ->
         Falloff(Length(CoordSub(Coordinate(X \div 4, Y \div 4), loc)), X, 4)
    [] challenge = CHALLENGE_RIGHT_HALF ->
         IF loc.x > X \div 2 THEN Pass1 ELSE Fail0
    [] challenge = CHALLENGE_RIGHT_QUARTER ->
         IF loc.x > X \div 2 + X \div 4 THEN Pass1 ELSE Fail0
    [] challenge = CHALLENGE_LEFT_EIGHTH ->
         IF loc.x < X \div 8 THEN Pass1 ELSE Fail0
    [] challenge = CHALLENGE_STRING ->
         IF IsBorder(loc) THEN Fail0
         ELSE LET count == CountOccupied(g, VisitNeighborhood(loc, 3))
              IN  IF count >= 2 /\ count <= 22 THEN Pass1 ELSE Fail0
    [] challenge = CHALLENGE_CENTER_WEIGHTED ->
         Falloff(Length(CoordSub(Coordinate(X \div 2, Y \div 2), loc)), X, 3)
    [] challenge = CHALLENGE_CENTER_UNWEIGHTED ->
         IF 3 * Length(CoordSub(Coordinate(X \div 2, Y \div 2), loc)) <= X
         THEN Pass1 ELSE Fail0
    [] challenge = CHALLENGE_CENTER_SPARSE ->
         LET count == CountOccupied(g, VisitNeighborhood(loc, 3))
         IN  IF /\ 4 * Length(CoordSub(Coordinate(X \div 2, Y \div 2), loc)) <= X
                /\ count >= 5 /\ count <= 8
             THEN Pass1 ELSE Fail0
    [] challenge = CHALLENGE_CORNER ->
         IF \E k \in 1..4 : 8 * CornerDistances(loc)[k] <= X
         THEN Pass1 ELSE Fail0
    [] challenge = CHALLENGE_CORNER_WEIGHTED ->
         LET near == { k \in 1..4 : 4 * CornerDistances(loc)[k] <= X }
         IN  IF near = {} THEN Fail0
             ELSE Falloff(CornerDistances(loc)[CHOOSE k \in near :
                                                 \A j \in near : k <= j], X, 4)
    [] challenge = CHALLENGE_RADIOACTIVE_WALLS -> Pass1
    [] challenge = CHALLENGE_AGAINST_ANY_WALL ->
         IF OnEdge(loc) THEN Pass1 ELSE Fail0
    [] challenge = CHALLENGE_TOUCH_ANY_WALL ->
         IF indiv.challengeBits # 0 THEN Pass1 ELSE Fail0
    [] challenge = CHALLENGE_MIGRATE_DISTANCE ->
         Result(TRUE, Length(CoordSub(loc, indiv.birthLoc)), Max(X, Y))
    [] challenge = CHALLENGE_EAST_WEST_EIGHTHS ->
         IF loc.x < X \div 8 \/ loc.x >= X - X \div 8 THEN Pass1 ELSE Fail0
    [] challenge = CHALLENGE_NEAR_BARRIER ->
         LET radius == X \div 2
             minDistance == MinDistance(loc, BarrierCenters)
         IN  IF minDistance <= radius
             THEN Result(TRUE, radius - minDistance, radius) ELSE Fail0
    [] challenge = CHALLENGE_PAIRS ->
         IF OnEdge(loc) THEN Fail0
         ELSE LET around == OccupiedAround(g, loc, loc)
              IN  IF /\ Cardinality(around) = 1
                     /\ \A t \in around : OccupiedAround(g, t, loc) = {}
                  THEN Pass1 ELSE Fail0
    [] challenge = CHALLENGE_LOCATION_SEQUENCE ->
         LET count == PopCount(indiv.challengeBits, 32)
         IN  IF count > 0 THEN Result(TRUE, count, 32) ELSE Fail0
    [] challenge = CHALLENGE_ALTRUISM_SACRIFICE ->
         Falloff(Length(CoordSub(Coordinate(X - X \div 4, Y - Y \div 4), loc)), X, 4)
    [] challenge = CHALLENGE_ALTRUISM ->
         Falloff(Length(CoordSub(Coordinate(X \div 4, Y \div 4), loc)), X, 4)


(***************************************************************************)
(* Generation initialisers.  A genome is kept by its origin: "random" for  *)
(* makeRandomGenome(), "child" for generateChildGenome(parentGenomes).     *)
(***************************************************************************)
\* the grid after the individuals were put on the arena at f
PlaceOn(arena, f) ==
  [c \in Cells |-> IF \E i \in Indices : f[i] = c
                   THEN CHOOSE i \in Indices : f[i] = c
                   ELSE arena[c]]

PlaceAll(f) == PlaceOn(CreateBarrier(GridZeroFill), f)

\* every world the loop "peeps[index].initialize(index,
\* grid.findEmptyLocation(), genome)" can leave behind
Generations(genome_) ==
  { [ grid |-> PlaceAll(f),
      peeps |-> [i \in Indices |->
                   Initialize(i, f[i], genome_, nn[i], dirs[i])] ] :
    f \in Placements, nn \in [Indices -> Nnets],
    dirs \in [Indices -> Random8Draws] }

InitializeGeneration0 == Generations("random")

InitializeNewGeneration == Generations("child")

(***************************************************************************)
(* One agent tick.  The sensor readings and the network output are not     *)
(* computed; the action levels they produce are the free choices emit,     *)
(* kill and offset.  A network without connections drives every action     *)
(* level to zero, so it neither emits nor kills nor moves.                 *)
(***************************************************************************)
Offsets == { Coordinate(dx, dy) : dx \in {-1, 0, 1}, dy \in {-1, 0, 1} }

\* isEnabled: an action is compiled in when it stands before the NUM_ACTIONS
\* marker of enum Action.  The header as shipped lists KILL_FORWARD after the
\* marker; sensors-actions.h has a build enable an action by listing it
\* before the marker, so the marker's place is part of the configuration.
IsEnabled(action) == action < p.actionsBuilt

EmitSignal0(layer, indiv, emit) ==
  IF emit THEN Increment(layer, indiv.loc) ELSE layer

KillForward(q, g, indiv, kill) ==
  IF IsEnabled(KILL_FORWARD) /\ p.killEnable
  THEN LET otherLoc == CoordAdd(indiv.loc, AsNormalizedCoord(indiv.lastMoveDir))
       IN  IF kill /\ IsInBounds(otherLoc) /\ IsOccupiedAt(g, otherLoc)
           THEN QueueForDeath(q, GetIndiv(g, otherLoc))
           ELSE q
  ELSE q

Movement(q, g, indiv, offset) ==
  LET newLoc == CoordAdd(indiv.loc, offset)
  IN  IF IsInBounds(newLoc) /\ IsEmptyAt(g, newLoc)
      THEN QueueForMove(q, indiv.index, newLoc)
      ELSE q

\* a tick that carries out its move itself instead of queueing it
SimulationStepMovingAtOnce(index) ==
  LET indiv == peeps[index]
  IN  \E offset \in Offsets :
        LET newLoc == CoordAdd(indiv.loc, offset)
            free == IsInBounds(newLoc) /\ IsEmptyAt(grid, newLoc)
        IN  /\ indiv.nnet = "empty" => offset = Coordinate(0, 0)
            /\ peeps' = [peeps EXCEPT ![index].age = @ + 1,
                                      ![index].loc = IF free THEN newLoc ELSE @]
            /\ grid' = IF free
                       THEN [grid EXCEPT ![indiv.loc] = EMPTY, ![newLoc] = index]
                       ELSE grid
            /\ UNCHANGED <<pheromones, deathQueue, moveQueue>>

\* simulationStepOneIndividual: ++age, feedForward, executeActions
SimulationStepOneIndividual(index) ==
  LET indiv == peeps[index]
  IN  \E emit \in BOOLEAN, kill \in BOOLEAN, offset \in Offsets :
        /\ indiv.nnet = "empty" =>
             (~emit /\ ~kill /\ offset = Coordinate(0, 0))
        /\ peeps' = [peeps EXCEPT ![index].age = @ + 1]
        /\ pheromones' = EmitSignal0(pheromones, indiv, emit)
        /\ deathQueue' = KillForward(deathQueue, grid, indiv, kill)
        /\ moveQueue' = Movement(moveQueue, grid, indiv, offset)
        /\ UNCHANGED grid

(***************************************************************************)
(* Challenge hooks of endOfSimulationStep.                                 *)
(***************************************************************************)
Abs(v) == IF v < 0 THEN -v ELSE v

RadioactiveX(simStep) ==
  IF simStep < p.stepsPerGeneration \div 2 THEN 0 ELSE p.gridSize_X - 1

\* individuals the radiation can reach at this step
Exposed(ps, simStep) ==
  { i \in Indices : /\ ps[i].alive
                    /\ Abs(ps[i].loc.x - RadioactiveX(simStep))
                         < p.gridSize_X \div 2 }

\* chanceOfDeath = 1.0 / 0 is +infinity: the draw is always below it
Doomed(ps, simStep) ==
  { i \in Exposed(ps, simStep) : ps[i].loc.x = RadioactiveX(simStep) }

RECURSIVE QueueVictims(_, _, _)
QueueVictims(q, victims, index) ==
  IF index > p.population THEN q
  ELSE QueueVictims(IF index \in victims THEN QueueForDeath(q, index) ELSE q,
                    victims, index + 1)

TouchAnyWall(ps) ==
  [i \in Indices |-> IF OnEdge(ps[i].loc)
                     THEN [ps[i] EXCEPT !.challengeBits = 1] ELSE ps[i]]

\* bit n of bits
Bit(bits, n) == (bits \div (2 ^ n)) % 2

\* the location-sequence hook crediting the first center in range, whether
\* or not the earlier ones were visited
RECURSIVE VisitAnyCenter(_, _)
VisitAnyCenter(indiv, n) ==
  IF n >= Len(BarrierCenters) THEN indiv
  ELSE IF /\ (indiv.challengeBits \div (2 ^ n)) % 2 = 0
          /\ Length(CoordSub(indiv.loc, BarrierCenters[n + 1])) <= 9
       THEN [indiv EXCEPT !.challengeBits = @ + 2 ^ n]
       ELSE VisitAnyCenter(indiv, n + 1)

RECURSIVE VisitNextCenter(_, _)
VisitNextCenter(indiv, n) ==
  IF n >= Len(BarrierCenters) THEN indiv
  ELSE IF Bit(indiv.challengeBits, n) = 0
       THEN IF Length(CoordSub(indiv.loc, BarrierCenters[n + 1])) <= 9
            THEN [indiv EXCEPT !.challengeBits = @ + 2 ^ n]
            ELSE indiv
       ELSE VisitNextCenter(indiv, n + 1)

LocationSequence(ps) == [i \in Indices |-> VisitNextCenter(ps[i], 0)]

SaveFrame(generation) ==
  /\ p.saveVideo
  /\ \/ generation % p.videoStride = 0
     \/ generation <= p.videoSaveFirstFrames
     \/ /\ generation >= p.parameterChangeGenerationNumber
        /\ generation <= p.parameterChangeGenerationNumber
                           + p.videoSaveFirstFrames


(***************************************************************************)
(* spawnNewGeneration(): the parent list.                                  *)
(***************************************************************************)
RECURSIVE CollectFrom(_, _, _, _)
CollectFrom(g, ps, challenge, index) ==
  IF index > p.population THEN << >>
  ELSE LET passed == PassedSurvivalCriterion(g, ps[index], challenge)
       IN  (IF passed.passed /\ ps[index].nnet # "empty"
            THEN << [index |-> index, num |-> passed.num, den |-> passed.den] >>
            ELSE << >>)
           \o CollectFrom(g, ps, challenge, index + 1)

\* a parent list of everyone who passes, whatever their network
RECURSIVE PassedFrom(_, _, _, _)
PassedFrom(g, ps, challenge, index) ==
  IF index > p.population THEN << >>
  ELSE LET passed == PassedSurvivalCriterion(g, ps[index], challenge)
       IN  (IF passed.passed
            THEN << [index |-> index, num |-> passed.num, den |-> passed.den] >>
            ELSE << >>)
           \o PassedFrom(g, ps, challenge, index + 1)

CollectPassed(g, ps) == PassedFrom(g, ps, p.challenge, 1)

\* the loop taken when p.challenge is not CHALLENGE_ALTRUISM
CollectParents(g, ps) == CollectFrom(g, ps, p.challenge, 1)

\* parent1.second > parent2.second
ScoreGreater(parent1, parent2) ==
  parent1.num * parent2.den > parent2.num * parent1.den

\* std::sort with that comparator: any arrangement in which no element is
\* followed by one with a greater score
SortByScore(list) ==
  LET n == Len(list)
      perms == { f \in [1..n -> 1..n] : \A i, j \in 1..n : i # j => f[i] # f[j] }
  IN  { [k \in 1..n |-> list[f[k]]] :
          f \in { g \in perms : \A i, j \in 1..n :
                    i < j => ~ScoreGreater(list[g[j]], list[g[i]]) } }

(***************************************************************************)
(* The simulator() loop.                                                   *)
(***************************************************************************)
RunModes == {"STOP", "RUN", "PAUSE", "ABORT"}

Threads == 1..p.numThreads

RunParams ==
  [ gridSize_X |-> SimSizeX, gridSize_Y |-> SimSizeY,
    population |-> SimPopulation, stepsPerGeneration |-> SimSteps,
    maxGenerations |-> SimGenerations, numThreads |-> SimThreads,
    challenge |-> CHALLENGE_RADIOACTIVE_WALLS, barrierType |-> 0,
    killEnable |-> TRUE, actionsBuilt |-> NUM_ACTIONS,
    saveVideo |-> TRUE, videoStride |-> 25,
    videoSaveFirstFrames |-> 2, parameterChangeGenerationNumber |-> 0 ]

Init ==
  /\ p = RunParams
  /\ \E w \in InitializeGeneration0 : grid = w.grid /\ peeps = w.peeps
  /\ deathQueue = << >>
  /\ moveQueue = << >>
  /\ pheromones = SignalsZeroFill
  /\ runMode = "RUN"
  /\ currentGeneration = 0
  /\ murderCount = 0
  /\ pc = [t \in Threads |-> "while"]
  /\ simulationStep = [t \in Threads |-> 0]
  /\ forDone = {}
  /\ singleBy = 0
  /\ bpc = 0
  /\ boundaryLog = << >>
  /\ NoHarness
  /\ parents = << >>
  /\ verdict = << >>
  /\ sig = << >>

world == <<grid, peeps, deathQueue, moveQueue, pheromones>>

aside == <<p, parents, verdict, sig, harness>>

AllAt(label) == \A t \in Threads : pc[t] = label

\* the embedding application writes the exported flag
SetRunMode(mode) ==
  /\ runMode = "RUN"
  /\ mode # "RUN"
  /\ runMode' = mode
  /\ UNCHANGED <<world, aside, currentGeneration, murderCount, pc,
                 simulationStep, forDone, singleBy, bpc, boundaryLog>>

\* while (runMode == RUN && currentGeneration < p.maxGenerations)
GenerationLoop(t) ==
  /\ pc[t] = "while"
  /\ pc' = [pc EXCEPT ![t] =
              IF runMode = "RUN" /\ currentGeneration < p.maxGenerations
              THEN "single_murder" ELSE "done"]
  /\ UNCHANGED <<world, aside, runMode, currentGeneration, murderCount,
                 simulationStep, forDone, singleBy, bpc, boundaryLog>>

\* omp single: murderCount = 0
ResetMurderCount(t) ==
  /\ pc[t] = "single_murder"
  /\ IF singleBy = 0
     THEN murderCount' = 0 /\ singleBy' = t
     ELSE UNCHANGED <<murderCount, singleBy>>
  /\ pc' = [pc EXCEPT ![t] = "barrier_murder"]
  /\ UNCHANGED <<world, aside, runMode, currentGeneration, simulationStep,
                 forDone, bpc, boundaryLog>>

\* barrier closing that single; each thread then enters its step loop
BarrierMurder ==
  /\ AllAt("barrier_murder")
  /\ pc' = [t \in Threads |-> "for_cond"]
  /\ simulationStep' = [t \in Threads |-> 0]
  /\ singleBy' = 0
  /\ UNCHANGED <<world, aside, runMode, currentGeneration, murderCount,
                 forDone, bpc, boundaryLog>>

\* a step loop that also tests runMode
StepLoopPolling(t) ==
  /\ pc[t] = "for_cond"
  /\ pc' = [pc EXCEPT ![t] =
              IF runMode # "RUN" THEN "done"
              ELSE IF simulationStep[t] < p.stepsPerGeneration
                   THEN "omp_for" ELSE "single_gen"]
  /\ UNCHANGED <<world, aside, runMode, currentGeneration, murderCount,
                 simulationStep, forDone, singleBy, bpc, boundaryLog>>

\* for (simulationStep = 0; simulationStep < p.stepsPerGeneration; ...)
StepLoop(t) ==
  /\ pc[t] = "for_cond"
  /\ pc' = [pc EXCEPT ![t] =
              IF simulationStep[t] < p.stepsPerGeneration
              THEN "omp_for" ELSE "single_gen"]
  /\ UNCHANGED <<world, aside, runMode, currentGeneration, murderCount,
                 simulationStep, forDone, singleBy, bpc, boundaryLog>>

\* omp for schedule(auto): thread t is handed iteration individual
ForIteration(t, individual) ==
  /\ pc[t] = "omp_for"
  /\ individual \in Indices \ forDone
  /\ forDone' = forDone \cup {individual}
  /\ IF peeps[individual].alive
     THEN SimulationStepOneIndividual(individual)
     ELSE UNCHANGED world
  /\ UNCHANGED <<aside, runMode, currentGeneration, murderCount, pc,
                 simulationStep, singleBy, bpc, boundaryLog>>

\* thread t has no iteration left: the rest is done or is another thread's
ForEnd(t) ==
  /\ pc[t] = "omp_for"
  /\ \/ forDone = Indices
     \/ \E u \in Threads \ {t} : pc[u] \in {"for_cond", "omp_for"}
  /\ pc' = [pc EXCEPT ![t] = "barrier_for"]
  /\ UNCHANGED <<world, aside, runMode, currentGeneration, murderCount,
                 simulationStep, forDone, singleBy, bpc, boundaryLog>>

\* implicit barrier at the end of the omp for
BarrierFor ==
  /\ AllAt("barrier_for")
  /\ pc' = [t \in Threads |-> "single_step"]
  /\ UNCHANGED <<world, aside, runMode, currentGeneration, murderCount,
                 simulationStep, forDone, singleBy, bpc, boundaryLog>>

\* omp single: murderCount += peeps.deathQueueSize(); endOfSimulationStep()
\* is entered by the first thread to arrive, the others go to the barrier
SingleStep(t) ==
  /\ pc[t] = "single_step"
  /\ IF singleBy = 0
     THEN /\ singleBy' = t
          /\ murderCount' = murderCount + Len(deathQueue)
          /\ bpc' = 1
          /\ pc' = [pc EXCEPT ![t] = "in_single"]
     ELSE /\ pc' = [pc EXCEPT ![t] = "barrier_step"]
          /\ UNCHANGED <<singleBy, murderCount, bpc>>
  /\ UNCHANGED <<world, aside, runMode, currentGeneration, simulationStep,
                 forDone, boundaryLog>>


(***************************************************************************)
(* endOfSimulationStep(), one action per statement.  bpc is the position   *)
(* in the statement list, 0 outside the function.                          *)
(***************************************************************************)
EndOfSimulationStepBody ==
  << "hook", "drainDeath", "drainMove", "fade",
     "drainDeath", "drainMove", "fade", "frame" >>

At(op) == bpc > 0 /\ EndOfSimulationStepBody[bpc] = op

Logged(op, arg) == Append(boundaryLog, [op |-> op, arg |-> arg])

ChallengeStepHook ==
  /\ At("hook")
  /\ \E victims \in SUBSET Indices :
       /\ IF p.challenge = CHALLENGE_RADIOACTIVE_WALLS
          THEN /\ Doomed(peeps, simulationStep[singleBy]) \subseteq victims
               /\ victims \subseteq Exposed(peeps, simulationStep[singleBy])
          ELSE victims = {}
       /\ deathQueue' = QueueVictims(deathQueue, victims, 1)
  /\ peeps' = IF p.challenge = CHALLENGE_TOUCH_ANY_WALL
              THEN TouchAnyWall(peeps)
              ELSE IF p.challenge = CHALLENGE_LOCATION_SEQUENCE
                   THEN LocationSequence(peeps)
                   ELSE peeps
  /\ bpc' = bpc + 1
  /\ boundaryLog' = Logged("challenge", << >>)
  /\ UNCHANGED <<grid, moveQueue, pheromones, aside, runMode,
                 currentGeneration, murderCount, pc, simulationStep, forDone,
                 singleBy>>

StepDrainDeathQueue ==
  /\ At("drainDeath")
  /\ LET w == DrainDeathQueue([grid |-> grid, peeps |-> peeps], deathQueue)
     IN  grid' = w.grid /\ peeps' = w.peeps
  /\ deathQueue' = << >>
  /\ bpc' = bpc + 1
  /\ boundaryLog' = Logged("drainDeath", << >>)
  /\ UNCHANGED <<moveQueue, pheromones, aside, runMode, currentGeneration,
                 murderCount, pc, simulationStep, forDone, singleBy>>

StepDrainMoveQueue ==
  /\ At("drainMove")
  /\ LET w == DrainMoveQueue([grid |-> grid, peeps |-> peeps], moveQueue)
     IN  grid' = w.grid /\ peeps' = w.peeps
  /\ moveQueue' = << >>
  /\ bpc' = bpc + 1
  /\ boundaryLog' = Logged("drainMove", moveQueue)
  /\ UNCHANGED <<deathQueue, pheromones, aside, runMode, currentGeneration,
                 murderCount, pc, simulationStep, forDone, singleBy>>

StepFade ==
  /\ At("fade")
  /\ pheromones' = Fade(pheromones)
  /\ bpc' = bpc + 1
  /\ boundaryLog' = Logged("fade", << >>)
  /\ UNCHANGED <<grid, peeps, deathQueue, moveQueue, aside, runMode,
                 currentGeneration, murderCount, pc, simulationStep, forDone,
                 singleBy>>

\* the video frame hook; returning from it ends the single
StepFrame ==
  /\ At("frame")
  /\ boundaryLog' = IF SaveFrame(currentGeneration)
                    THEN Logged("frame", << >>) ELSE boundaryLog
  /\ bpc' = 0
  /\ pc' = [pc EXCEPT ![singleBy] = "barrier_step"]
  /\ UNCHANGED <<world, aside, runMode, currentGeneration, murderCount,
                 simulationStep, forDone, singleBy>>

\* barrier closing the single; ++simulationStep in every thread
BarrierStep ==
  /\ AllAt("barrier_step")
  /\ pc' = [t \in Threads |-> "for_cond"]
  /\ simulationStep' = [t \in Threads |-> simulationStep[t] + 1]
  /\ singleBy' = 0
  /\ forDone' = {}
  /\ boundaryLog' = << >>
  /\ UNCHANGED <<world, aside, runMode, currentGeneration, murderCount, bpc>>

\* a generation boundary that always counts up
SpawnAlwaysCounting ==
  \E sorted \in SortByScore(CollectParents(grid, peeps)) :
    /\ \E w \in (IF Len(sorted) # 0 THEN InitializeNewGeneration
                                   ELSE InitializeGeneration0) :
         grid' = w.grid /\ peeps' = w.peeps
    /\ pheromones' = SignalsZeroFill
    /\ currentGeneration' = currentGeneration + 1

\* spawnNewGeneration() followed by the update of currentGeneration
SpawnNewGeneration ==
  \E sorted \in SortByScore(CollectParents(grid, peeps)) :
    /\ \E w \in (IF Len(sorted) # 0 THEN InitializeNewGeneration
                                   ELSE InitializeGeneration0) :
         grid' = w.grid /\ peeps' = w.peeps
    /\ pheromones' = SignalsZeroFill
    /\ currentGeneration' = IF Len(sorted) = 0 THEN 0
                            ELSE currentGeneration + 1

\* omp single: endOfGeneration(); spawnNewGeneration(); counter update
SingleGeneration(t) ==
  /\ pc[t] = "single_gen"
  /\ IF singleBy = 0
     THEN singleBy' = t /\ SpawnNewGeneration
     ELSE UNCHANGED <<singleBy, grid, peeps, pheromones, currentGeneration>>
  /\ pc' = [pc EXCEPT ![t] = "barrier_gen"]
  /\ UNCHANGED <<deathQueue, moveQueue, aside, runMode, murderCount,
                 simulationStep, forDone, bpc, boundaryLog>>

BarrierGeneration ==
  /\ AllAt("barrier_gen")
  /\ pc' = [t \in Threads |-> "while"]
  /\ singleBy' = 0
  /\ UNCHANGED <<world, aside, runMode, currentGeneration, murderCount,
                 simulationStep, forDone, bpc, boundaryLog>>

Next ==
  \/ \E mode \in {"STOP", "ABORT"} : SetRunMode(mode)
  \/ \E t \in Threads : GenerationLoop(t)
  \/ \E t \in Threads : ResetMurderCount(t)
  \/ BarrierMurder
  \/ \E t \in Threads : StepLoop(t)
  \/ \E t \in Threads : \E individual \in Indices : ForIteration(t, individual)
  \/ \E t \in Threads : ForEnd(t)
  \/ BarrierFor
  \/ \E t \in Threads : SingleStep(t)
  \/ ChallengeStepHook
  \/ StepDrainDeathQueue
  \/ StepDrainMoveQueue
  \/ StepFade
  \/ StepFrame
  \/ BarrierStep
  \/ \E t \in Threads : SingleGeneration(t)
  \/ BarrierGeneration

Spec == Init /\ [][Next]_vars


(***************************************************************************)
(* Properties of the simulator() loop, checked under Spec.                 *)
(***************************************************************************)

\* C1: invariant G1 -- every live agent a has grid[a.loc] = a.index and no
\* two live agents share a location; it holds after every generation
\* initialisation and at every step boundary (indeed in every state).
C1_G1 ==
  /\ \A a \in Indices : peeps[a].alive => grid[peeps[a].loc] = peeps[a].index
  /\ \A a, b \in Indices :
       (a # b /\ peeps[a].alive /\ peeps[b].alive) => peeps[a].loc # peeps[b].loc

\* a step boundary of a later generation, both queues drained, at which a
\* hook death and a queued move have both been applied
C1_Witness ==
  /\ currentGeneration >= 1
  /\ bpc = 4
  /\ Len(boundaryLog) = 3
  /\ Len(boundaryLog[3].arg) >= 1
  /\ \E a, b \in Indices :
       /\ ~peeps[a].alive
       /\ peeps[b].alive
       /\ boundaryLog[3].arg[1] = <<b, peeps[b].loc>>

\* C2: move collisions are first-come-first-served -- when several live
\* agents have queued moves into one empty cell, the drain puts the agent of
\* the earliest record there and nobody else; every other contender keeps
\* its location and its grid cell, and all contenders stay alive.
C2_FirstComeFirstServed ==
  [][ (At("drainMove") /\ bpc' = bpc + 1) =>
      \A c \in Cells :
        LET contenders == { k \in 1..Len(moveQueue) :
                              /\ moveQueue[k][2] = c
                              /\ peeps[moveQueue[k][1]].alive }
        IN  (IsEmptyAt(grid, c) /\ Cardinality(contenders) >= 2) =>
              LET first == CHOOSE k \in contenders : \A j \in contenders : k <= j
                  winner == moveQueue[first][1]
              IN  /\ grid'[c] = winner
                  /\ { a \in Indices : peeps'[a].alive /\ peeps'[a].loc = c }
                       = {winner}
                  /\ \A k \in contenders \ {first} :
                       /\ peeps'[moveQueue[k][1]].loc = peeps[moveQueue[k][1]].loc
                       /\ grid'[peeps[moveQueue[k][1]].loc] = moveQueue[k][1]
                  /\ \A k \in contenders : peeps'[moveQueue[k][1]].alive
    ]_vars

\* the move queue just drained held two live agents' moves into one cell; the
\* first of them now stands there and the second has not moved
C2_Witness ==
  /\ bpc = 4
  /\ Len(boundaryLog) = 3
  /\ Len(boundaryLog[3].arg) = 2
  /\ boundaryLog[3].arg[1][2] = boundaryLog[3].arg[2][2]
  /\ peeps[boundaryLog[3].arg[1][1]].alive
  /\ peeps[boundaryLog[3].arg[2][1]].alive
  /\ grid[boundaryLog[3].arg[1][2]] = boundaryLog[3].arg[1][1]
  /\ peeps[boundaryLog[3].arg[2][1]].loc # boundaryLog[3].arg[2][2]

\* C4: within every step all agent ticks finish before the boundary work
\* starts, the boundary work is the sequence challenge hook, death-queue
\* drain, move-queue drain, fade, frame hook in that order, and no tick of
\* the next step starts before the boundary work has finished.
C4_PhaseOrder ==
  /\ (bpc > 0 \/ boundaryLog # << >>) =>
       (forDone = Indices /\ \A t \in Threads : pc[t] # "omp_for")
  /\ \E n \in 0..5 :
       [k \in 1..Len(boundaryLog) |-> boundaryLog[k].op]
         = SubSeq(<<"challenge", "drainDeath", "drainMove", "fade", "frame">>, 1, n)
  /\ (\E t \in Threads : pc[t] = "omp_for") => (bpc = 0 /\ boundaryLog = << >>)

C8_GenerationBoundary ==
  [][ (\E t \in Threads : pc[t] = "single_gen" /\ singleBy = 0 /\ singleBy' = t) =>
        IF CollectParents(grid, peeps) = << >>
        THEN /\ currentGeneration' = 0
             /\ \A i \in Indices : peeps'[i].genome = "random" /\ peeps'[i].age = 0
        ELSE /\ currentGeneration' = currentGeneration + 1
             /\ \A i \in Indices : peeps'[i].genome = "child" /\ peeps'[i].age = 0
    ]_vars

\* a generation boundary has just produced generation 1 from survivors
C8_Witness ==
  /\ singleBy # 0
  /\ pc[singleBy] = "barrier_gen"
  /\ currentGeneration = 1
  /\ \A i \in Indices : peeps[i].genome = "child" /\ peeps[i].alive

MaxQueue == 2

idle == <<pheromones, runMode, currentGeneration, murderCount, pc,
          simulationStep, forDone, singleBy, bpc, parents, verdict, sig, p,
          harness>>

InitPeeps ==
  /\ p = RunParams
  /\ \E w \in InitializeGeneration0 : grid = w.grid /\ peeps = w.peeps
  /\ deathQueue = << >>
  /\ moveQueue = << >>
  /\ pheromones = SignalsZeroFill
  /\ runMode = "RUN"
  /\ currentGeneration = 0
  /\ murderCount = 0
  /\ pc = << >>
  /\ simulationStep = << >>
  /\ forDone = {}
  /\ singleBy = 0
  /\ bpc = 0
  /\ boundaryLog = << >>
  /\ NoHarness
  /\ parents = << >>
  /\ verdict = << >>
  /\ sig = << >>

CallQueueForDeath(index) ==
  /\ peeps[index].alive
  /\ Len(deathQueue) < MaxQueue
  /\ deathQueue' = QueueForDeath(deathQueue, index)
  /\ UNCHANGED <<grid, peeps, moveQueue, boundaryLog, idle>>

CallQueueForMove(index, offset) ==
  /\ peeps[index].alive
  /\ \A k \in 1..Len(moveQueue) : moveQueue[k][1] # index
  /\ moveQueue' = Movement(moveQueue, grid, peeps[index], offset)
  /\ moveQueue' # moveQueue
  /\ UNCHANGED <<grid, peeps, deathQueue, boundaryLog, idle>>

CallDrainDeathQueue ==
  /\ LET w == DrainDeathQueue([grid |-> grid, peeps |-> peeps], deathQueue)
     IN  grid' = w.grid /\ peeps' = w.peeps
  /\ deathQueue' = << >>
  /\ boundaryLog' = << [op |-> "drainDeath", arg |-> deathQueue] >>
  /\ UNCHANGED <<moveQueue, idle>>

CallDrainMoveQueue ==
  /\ LET w == DrainMoveQueue([grid |-> grid, peeps |-> peeps], moveQueue)
     IN  grid' = w.grid /\ peeps' = w.peeps
  /\ moveQueue' = << >>
  /\ boundaryLog' = << [op |-> "drainMove", arg |-> moveQueue] >>
  /\ UNCHANGED <<deathQueue, idle>>

NextPeeps ==
  \/ \E index \in Indices : CallQueueForDeath(index)
  \/ \E index \in Indices : \E offset \in Offsets : CallQueueForMove(index, offset)
  \/ CallDrainDeathQueue
  \/ CallDrainMoveQueue

SpecPeeps == InitPeeps /\ [][NextPeeps]_vars

\* C3: duplicate death requests are harmless -- draining a death queue that
\* names a live agent more than once leaves that agent dead and its cell
\* EMPTY, and the repeated records change nothing: every other cell and
\* every other agent is as before, exactly as if each agent had been
\* queued once.
C3_DuplicateDeathsHarmless ==
  [][ (boundaryLog' # boundaryLog /\ boundaryLog'[1].op = "drainDeath") =>
        /\ \A index \in Range(deathQueue) :
             /\ ~peeps'[index].alive
             /\ grid'[peeps[index].loc] = EMPTY
             /\ peeps'[index] = [peeps[index] EXCEPT !.alive = FALSE]
        /\ \A index \in Indices \ Range(deathQueue) : peeps'[index] = peeps[index]
        /\ \A c \in Cells :
             (\A index \in Range(deathQueue) : peeps[index].loc # c) =>
               grid'[c] = grid[c]
        /\ deathQueue' = << >>
    ]_vars

\* the queue just drained named one live agent twice; the agent is dead and
\* its cell is empty, and the other agent is still in place
C3_Witness ==
  /\ boundaryLog # << >>
  /\ boundaryLog[1].op = "drainDeath"
  /\ Len(boundaryLog[1].arg) = 2
  /\ boundaryLog[1].arg[1] = boundaryLog[1].arg[2]
  /\ ~peeps[boundaryLog[1].arg[1]].alive
  /\ grid[peeps[boundaryLog[1].arg[1]].loc] = EMPTY
  /\ \E other \in Indices :
       peeps[other].alive /\ grid[peeps[other].loc] = other


(***************************************************************************)
(* SpecSig: Signals::increment on layer 0 called by the threads of the     *)
(* team, one depositing agent each, during one parallel phase.  Every      *)
(* read-modify-write of a cell is a load followed by a store.  sig holds   *)
(* the owner of the unnamed critical section, the layer at the start of    *)
(* the calls and, per thread, its agent's location, its position in the    *)
(* function, the cell it is working on and the value it loaded.            *)
(***************************************************************************)
\* layers a parallel phase can show: nothing deposited yet, or one deposit
EarlierDeposits ==
  {SignalsZeroFill} \cup { Increment(SignalsZeroFill, c) : c \in Cells }

InitSig ==
  /\ p = RunParams
  /\ grid = GridZeroFill
  /\ peeps = << >>
  /\ deathQueue = << >>
  /\ moveQueue = << >>
  /\ pheromones \in EarlierDeposits
  /\ runMode = "RUN"
  /\ currentGeneration = 0
  /\ murderCount = 0
  /\ pc = << >>
  /\ simulationStep = << >>
  /\ forDone = {}
  /\ singleBy = 0
  /\ bpc = 0
  /\ boundaryLog = << >>
  /\ NoHarness
  /\ parents = << >>
  /\ verdict = << >>
  /\ \E locs \in [Threads -> Cells] :
       /\ \A t, u \in Threads : t # u => locs[t] # locs[u]
       /\ sig = [ owner |-> 0, start |-> pheromones,
                  th |-> [t \in Threads |->
                            [loc |-> locs[t], at |-> "call", k |-> 0, tmp |-> 0]] ]

rest == <<p, grid, peeps, deathQueue, moveQueue, runMode, currentGeneration,
          murderCount, pc, simulationStep, forDone, singleBy, bpc,
          boundaryLog, parents, verdict, harness>>

\* the cells increment() visits for thread t, then the center once more
Visits(t) == VisitNeighborhood(sig.th[t].loc, 3) \o << sig.th[t].loc >>

\* neighborIncreaseAmount for the visited cells, centerIncreaseAmount last
Amount(t) == IF sig.th[t].k = Len(Visits(t)) THEN 2 ELSE 1

\* increment() without the critical section
CriticalAbsent(t) == TRUE

\* entry to "#pragma omp critical"
CriticalFree(t) == sig.owner = 0

Enter(t) ==
  /\ sig.th[t].at = "call"
  /\ CriticalFree(t)
  /\ sig' = [sig EXCEPT !.owner = t, !.th[t].at = "load", !.th[t].k = 1]
  /\ UNCHANGED <<pheromones, rest>>

Load(t) ==
  /\ sig.th[t].at = "load"
  /\ sig' = [sig EXCEPT !.th[t].tmp = pheromones[Visits(t)[sig.th[t].k]],
                        !.th[t].at = "store"]
  /\ UNCHANGED <<pheromones, rest>>

Store(t) ==
  /\ sig.th[t].at = "store"
  /\ pheromones' = [pheromones EXCEPT ![Visits(t)[sig.th[t].k]] =
                      AddSaturating(sig.th[t].tmp, Amount(t))]
  /\ sig' = IF sig.th[t].k < Len(Visits(t))
            THEN [sig EXCEPT !.th[t].at = "load", !.th[t].k = @ + 1]
            ELSE [sig EXCEPT !.th[t].at = "leave"]
  /\ UNCHANGED rest

Leave(t) ==
  /\ sig.th[t].at = "leave"
  /\ sig' = [sig EXCEPT !.owner = IF @ = t THEN 0 ELSE @,
                        !.th[t].at = "return"]
  /\ UNCHANGED <<pheromones, rest>>

NextSig ==
  \/ \E t \in Threads : Enter(t)
  \/ \E t \in Threads : Load(t)
  \/ \E t \in Threads : Store(t)
  \/ \E t \in Threads : Leave(t)

SpecSig == InitSig /\ [][NextSig]_vars

RECURSIVE Deposits(_, _, _)
Deposits(layer, locs, k) ==
  IF k > Len(locs) THEN layer
  ELSE Deposits(Increment(layer, locs[k]), locs, k + 1)

\* C6: concurrent deposits lose no increment -- once all depositing threads
\* have returned, the layer equals the deposits applied one after another
\* to the starting layer, and that is the same layer for every order.
C6_NoLostIncrement ==
  (\A t \in Threads : sig.th[t].at = "return") =>
     \A order \in { f \in [Threads -> Threads] :
                      \A t, u \in Threads : t # u => f[t] # f[u] } :
       pheromones = Deposits(sig.start,
                             [k \in 1..p.numThreads |-> sig.th[order[k]].loc], 1)

\* all threads have deposited, at different locations whose neighbourhoods
\* overlap, on a layer that already held a deposit
C6_Witness ==
  /\ \A t \in Threads : sig.th[t].at = "return"
  /\ sig.start # SignalsZeroFill
  /\ \E t, u \in Threads :
       /\ t # u
       /\ Range(VisitNeighborhood(sig.th[t].loc, 3))
            \cap Range(VisitNeighborhood(sig.th[u].loc, 3)) # {}
  /\ pheromones # sig.start


(***************************************************************************)
(* SpecSurv: passedSurvivalCriterion and the parent list of                *)
(* spawnNewGeneration on the worlds a generation can end in: any placement *)
(* of the population; dead individuals only under the one challenge whose  *)
(* hook kills; challengeBits set only by the hook that sets them.          *)
(***************************************************************************)
SurvSize == 6
SurvPopulation == 2

Challenges ==
  { CHALLENGE_CIRCLE, CHALLENGE_RIGHT_HALF, CHALLENGE_RIGHT_QUARTER,
    CHALLENGE_STRING, CHALLENGE_CENTER_WEIGHTED, CHALLENGE_CENTER_UNWEIGHTED,
    CHALLENGE_CORNER, CHALLENGE_CORNER_WEIGHTED, CHALLENGE_MIGRATE_DISTANCE,
    CHALLENGE_CENTER_SPARSE, CHALLENGE_LEFT_EIGHTH,
    CHALLENGE_RADIOACTIVE_WALLS, CHALLENGE_AGAINST_ANY_WALL,
    CHALLENGE_TOUCH_ANY_WALL, CHALLENGE_EAST_WEST_EIGHTHS,
    CHALLENGE_NEAR_BARRIER, CHALLENGE_PAIRS, CHALLENGE_LOCATION_SEQUENCE,
    CHALLENGE_ALTRUISM, CHALLENGE_ALTRUISM_SACRIFICE }

\* an individual at the end of a generation's last step
EndState(index, loc_, nnet_, alive_, bits_) ==
  [ Initialize(index, loc_, "random", nnet_, N)
      EXCEPT !.age = p.stepsPerGeneration, !.alive = alive_,
             !.challengeBits = bits_ ]

InitSurv ==
  /\ \E challenge \in Challenges :
       p = [RunParams EXCEPT !.gridSize_X = SurvSize, !.gridSize_Y = SurvSize,
                             !.population = SurvPopulation,
                             !.challenge = challenge]
  /\ \E f \in Placements :
       \E al \in [Indices -> IF p.challenge = CHALLENGE_RADIOACTIVE_WALLS
                             THEN BOOLEAN ELSE {TRUE}] :
         /\ grid = LET arena == CreateBarrier(GridZeroFill)
                   IN  [c \in Cells |->
                          IF \E i \in Indices : f[i] = c /\ al[i]
                          THEN CHOOSE i \in Indices : f[i] = c
                          ELSE arena[c]]
         /\ \E nn \in [Indices -> Nnets],
               bs \in [Indices -> IF p.challenge = CHALLENGE_TOUCH_ANY_WALL
                                  THEN {0, 1} ELSE {0}] :
              peeps = [i \in Indices |-> EndState(i, f[i], nn[i], al[i], bs[i])]
  /\ deathQueue = << >>
  /\ moveQueue = << >>
  /\ pheromones = << >>
  /\ runMode = "RUN"
  /\ currentGeneration = 0
  /\ murderCount = 0
  /\ pc = << >>
  /\ simulationStep = << >>
  /\ forDone = {}
  /\ singleBy = 0
  /\ bpc = 0
  /\ boundaryLog = << >>
  /\ NoHarness
  /\ parents = << >>
  /\ verdict = << >>
  /\ sig = << >>

still == <<p, grid, peeps, deathQueue, moveQueue, pheromones, runMode,
           currentGeneration, murderCount, pc, simulationStep, forDone,
           singleBy, bpc, sig, harness>>

\* passedSurvivalCriterion(peeps[index], p.challenge) for every index
SurvivalCheck ==
  /\ verdict = << >>
  /\ verdict' = [i \in Indices |->
                   PassedSurvivalCriterion(grid, peeps[i], p.challenge)]
  /\ UNCHANGED <<parents, boundaryLog, still>>

\* spawnNewGeneration() up to the sorted parent list, non-altruism branch
SelectParents ==
  /\ verdict # << >>
  /\ boundaryLog = << >>
  /\ p.challenge # CHALLENGE_ALTRUISM
  /\ parents' \in SortByScore(CollectParents(grid, peeps))
  /\ boundaryLog' = << [op |-> "parents", arg |-> << >>] >>
  /\ UNCHANGED <<verdict, still>>

NextSurv ==
  \/ SurvivalCheck
  \/ SelectParents

SpecSurv == InitSurv /\ [][NextSurv]_vars

\* C7 as stated: for a non-altruism challenge the parents are exactly the
\* agents for which the survival predicate passes.
C7_ParentsArePassers ==
  boundaryLog # << >> =>
    { parents[k].index : k \in 1..Len(parents) }
      = { i \in Indices : verdict[i].passed }

\* C7 amended: for a non-altruism challenge the parents are exactly the
\* agents for which the survival predicate passes and whose network has at
\* least one connection, each listed once with the predicate's score.
C7_ParentsArePassersWithNetwork ==
  boundaryLog # << >> =>
    /\ { parents[k].index : k \in 1..Len(parents) }
         = { i \in Indices : verdict[i].passed /\ peeps[i].nnet # "empty" }
    /\ \A j, k \in 1..Len(parents) : j # k => parents[j].index # parents[k].index
    /\ \A k \in 1..Len(parents) :
         /\ parents[k].num = verdict[parents[k].index].num
         /\ parents[k].den = verdict[parents[k].index].den

\* the parent list was collected where one agent passed with a network and
\* another passed without one
C7_Witness ==
  /\ boundaryLog # << >>
  /\ Len(parents) = 1
  /\ \E i \in Indices :
       verdict[i].passed /\ peeps[i].nnet = "empty" /\ parents[1].index # i

\* C10: for every challenge and every agent state the predicate's score
\* lies in [0, 1], and for a dead agent it is (false, 0).
C10_ScoreInUnitInterval ==
  verdict # << >> =>
    \A i \in Indices :
      /\ 0 <= verdict[i].num
      /\ verdict[i].num <= verdict[i].den
      /\ ~peeps[i].alive => (~verdict[i].passed /\ verdict[i].num = 0)

(***************************************************************************)
(* Genome and neural network (genome.cpp).  A gene is a connection; its    *)
(* source is a sensor or a neuron, its sink a neuron or an action.         *)
(***************************************************************************)
NetNeurons == 3
NetGenes == 3

SENSOR == 1
\* ACTION in the source; the name is reserved in TLA+
ACTION_SINK == 1
NEURON == 0
NUM_SENSES == 21

Gene(sourceType_, sourceNum_, sinkType_, sinkNum_, weight_) ==
  [ sourceType |-> sourceType_, sourceNum |-> sourceNum_,
    sinkType |-> sinkType_, sinkNum |-> sinkNum_, weight |-> weight_ ]

\* Node{}: the value-initialised node std::map creates
Node == [ remappedNumber |-> 0, numOutputs |-> 0, numSelfInputs |-> 0,
          numInputsFromSensorsOrOtherNeurons |-> 0 ]

\* nodeMap.insert / nodeMap[key] for a key that may be missing
WithNode(nodeMap, key) ==
  IF key \in DOMAIN nodeMap THEN nodeMap
  ELSE [k \in DOMAIN nodeMap \cup {key} |->
          IF k = key THEN Node ELSE nodeMap[k]]

\* nodeMap.erase(key)
WithoutNode(nodeMap, key) == [k \in DOMAIN nodeMap \ {key} |-> nodeMap[k]]

\* the renumbering without the fold of neuron numbers onto
\* 0..maxNumberNeurons-1
RenumberedGeneUnfolded(gene) ==
  [gene EXCEPT
     !.sourceNum = IF gene.sourceType = NEURON THEN @ ELSE @ % NUM_SENSES,
     !.sinkNum = IF gene.sinkType = NEURON THEN @ ELSE @ % NUM_ACTIONS]

RenumberedGene(gene) ==
  [gene EXCEPT
     !.sourceNum = IF gene.sourceType = NEURON
                   THEN @ % p.maxNumberNeurons ELSE @ % NUM_SENSES,
     !.sinkNum = IF gene.sinkType = NEURON
                 THEN @ % p.maxNumberNeurons ELSE @ % NUM_ACTIONS]

MakeRenumberedConnectionList(genome_) ==
  [k \in 1..Len(genome_) |-> RenumberedGene(genome_[k])]

\* the body of the loop of makeNodeList for one connection
NodeListStep(nodeMap, conn) ==
  LET asSink ==
        IF conn.sinkType = NEURON
        THEN LET m == WithNode(nodeMap, conn.sinkNum)
             IN  IF conn.sourceType = NEURON /\ conn.sourceNum = conn.sinkNum
                 THEN [m EXCEPT ![conn.sinkNum].numSelfInputs = @ + 1]
                 ELSE [m EXCEPT ![conn.sinkNum]
                                   .numInputsFromSensorsOrOtherNeurons = @ + 1]
        ELSE nodeMap
  IN  IF conn.sourceType = NEURON
      THEN [WithNode(asSink, conn.sourceNum)
              EXCEPT ![conn.sourceNum].numOutputs = @ + 1]
      ELSE asSink

RECURSIVE NodeListFrom(_, _, _)
NodeListFrom(nodeMap, connectionList, k) ==
  IF k > Len(connectionList) THEN nodeMap
  ELSE NodeListFrom(NodeListStep(nodeMap, connectionList[k]),
                    connectionList, k + 1)

MakeNodeList(connectionList) == NodeListFrom(<< >>, connectionList, 1)

\* removeConnectionsToNeuron: the connections and the node map it leaves
RECURSIVE RemoveConnectionsFrom(_, _, _, _)
RemoveConnectionsFrom(kept, connections, nodeMap, neuronNumber) ==
  IF connections = << >>
  THEN [connections |-> kept, nodeMap |-> nodeMap]
  ELSE LET conn == Head(connections)
       IN  IF conn.sinkType = NEURON /\ conn.sinkNum = neuronNumber
           THEN RemoveConnectionsFrom(
                  kept, Tail(connections),
                  IF conn.sourceType = NEURON
                  THEN [WithNode(nodeMap, conn.sourceNum)
                          EXCEPT ![conn.sourceNum].numOutputs = (@ - 1) % 65536]
                  ELSE nodeMap,
                  neuronNumber)
           ELSE RemoveConnectionsFrom(Append(kept, conn), Tail(connections),
                                      nodeMap, neuronNumber)

\* removeConnectionsToNeuron leaving the sources' output counts alone
RemoveConnectionsKeepingCounts(connections, nodeMap, neuronNumber) ==
  [ connections |->
      SelectSeq(connections,
                LAMBDA conn : ~(conn.sinkType = NEURON
                                  /\ conn.sinkNum = neuronNumber)),
    nodeMap |-> nodeMap ]

RemoveConnectionsToNeuron(connections, nodeMap, neuronNumber) ==
  RemoveConnectionsFrom(<< >>, connections, nodeMap, neuronNumber)

\* one pass of the for loop of cullUselessNeurons over the keys >= from, in
\* key order; allDone reports whether the pass found nothing to remove
RECURSIVE CullPass(_, _, _, _)
CullPass(connections, nodeMap, from, allDone) ==
  LET later == { k \in DOMAIN nodeMap : k >= from }
  IN  IF later = {}
      THEN [connections |-> connections, nodeMap |-> nodeMap, allDone |-> allDone]
      ELSE LET it == CHOOSE k \in later : \A j \in later : k <= j
           IN  IF nodeMap[it].numOutputs = nodeMap[it].numSelfInputs
               THEN LET r == RemoveConnectionsToNeuron(connections, nodeMap, it)
                    IN  CullPass(r.connections, WithoutNode(r.nodeMap, it),
                                 it + 1, FALSE)
               ELSE CullPass(connections, nodeMap, it + 1, allDone)

RECURSIVE CullUselessNeurons(_, _)
CullUselessNeurons(connections, nodeMap) ==
  LET pass == CullPass(connections, nodeMap, 0, TRUE)
  IN  IF pass.allDone
      THEN [connections |-> pass.connections, nodeMap |-> pass.nodeMap]
      ELSE CullUselessNeurons(pass.connections, pass.nodeMap)

\* "node.second.remappedNumber = newNumber++" over the map in key order
Renumbered(nodeMap) ==
  [k \in DOMAIN nodeMap |->
     [nodeMap[k] EXCEPT
        !.remappedNumber = Cardinality({ j \in DOMAIN nodeMap : j < k })]]

\* one connection copied into nnet.connections with its neuron numbers
\* replaced; nodeMap[...] creates the node if the key is missing
WiredConnection(acc, conn) ==
  LET m1 == IF conn.sinkType = NEURON
            THEN WithNode(acc.nodeMap, conn.sinkNum) ELSE acc.nodeMap
      c1 == IF conn.sinkType = NEURON
            THEN [conn EXCEPT !.sinkNum = m1[conn.sinkNum].remappedNumber]
            ELSE conn
      m2 == IF conn.sourceType = NEURON
            THEN WithNode(m1, conn.sourceNum) ELSE m1
      c2 == IF conn.sourceType = NEURON
            THEN [c1 EXCEPT !.sourceNum = m2[conn.sourceNum].remappedNumber]
            ELSE c1
  IN  [connections |-> Append(acc.connections, c2), nodeMap |-> m2]

\* one of the two passes over connectionList: the connections whose sink has
\* the given type, in list order
RECURSIVE WirePass(_, _, _, _)
WirePass(acc, connectionList, k, sinkType_) ==
  IF k > Len(connectionList) THEN acc
  ELSE WirePass(IF connectionList[k].sinkType = sinkType_
                THEN WiredConnection(acc, connectionList[k]) ELSE acc,
                connectionList, k + 1, sinkType_)

\* "for (neuronNum = 0; neuronNum < nodeMap.size(); ++neuronNum)": the map
\* is indexed by the loop counter, and nodeMap[neuronNum] creates a node when
\* no neuron has that original number.  A neuron's output is kept as the
\* number of times it was latched since the pre-step value.
RECURSIVE NeuronList(_, _, _)
NeuronList(neurons, nodeMap, neuronNum) ==
  IF neuronNum >= Cardinality(DOMAIN nodeMap) THEN neurons
  ELSE LET m == WithNode(nodeMap, neuronNum)
       IN  NeuronList(
             Append(neurons,
                    [ output |-> 0,
                      driven |-> m[neuronNum].numInputsFromSensorsOrOtherNeurons # 0 ]),
             m, neuronNum + 1)

\* the number of times the body of "while (!allDone)" in cullUselessNeurons
\* runs, the pass that finds nothing included
RECURSIVE CullPasses(_, _)
CullPasses(connections, nodeMap) ==
  LET pass == CullPass(connections, nodeMap, 0, TRUE)
  IN  IF pass.allDone THEN 1
      ELSE 1 + CullPasses(pass.connections, pass.nodeMap)

\* a single pass that copies every connection in list order
RECURSIVE WireAll(_, _, _)
WireAll(acc, connectionList, k) ==
  IF k > Len(connectionList) THEN acc
  ELSE WireAll(WiredConnection(acc, connectionList[k]), connectionList, k + 1)

\* createWiringFromGenome without the two passes
WiringInListOrder(genome_) ==
  LET connectionList == MakeRenumberedConnectionList(genome_)
      culled == CullUselessNeurons(connectionList, MakeNodeList(connectionList))
      start == [connections |-> << >>, nodeMap |-> Renumbered(culled.nodeMap)]
      all == WireAll(start, culled.connections, 1)
  IN  [ connections |-> all.connections,
        neurons |-> NeuronList(<< >>, all.nodeMap, 0) ]

\* Individual::createWiringFromGenome: the nnet it builds
Wiring(genome_) ==
  LET connectionList == MakeRenumberedConnectionList(genome_)
      culled == CullUselessNeurons(connectionList, MakeNodeList(connectionList))
      start == [connections |-> << >>, nodeMap |-> Renumbered(culled.nodeMap)]
      toNeurons == WirePass(start, culled.connections, 1, NEURON)
      toActions == WirePass(toNeurons, culled.connections, 1, ACTION_SINK)
  IN  [ connections |-> toActions.connections,
        neurons |-> NeuronList(<< >>, toActions.nodeMap, 0) ]

(***************************************************************************)
(* SpecNet: one individual is given a genome, wired, and ticked once.      *)
(* feedForward is followed connection by connection; ff holds its locals   *)
(* and the sequence of reads and writes it has made.  Float values are not *)
(* computed: a sensor reading is the term <<"sensor", n>> and a neuron     *)
(* output is the number of latches applied to it in this call (0 is the    *)
(* pre-step output).                                                       *)
(***************************************************************************)
NetParams == [maxNumberNeurons |-> NetNeurons]

\* genes over sensor 0, action 0 and neuron numbers 0..maxNumberNeurons, the
\* last of which the renumbering folds onto neuron 0
NetSources == {<<SENSOR, 0>>} \cup { <<NEURON, n>> : n \in 0..NetNeurons }

NetSinks == {<<ACTION_SINK, 0>>} \cup { <<NEURON, n>> : n \in 0..NetNeurons }

NetGenePool ==
  { Gene(s[1], s[2], k[1], k[2], 8192) : s \in NetSources, k \in NetSinks }

NetGenomes == UNION { [1..n -> NetGenePool] : n \in 1..NetGenes }

InitNet ==
  /\ p = NetParams
  /\ grid = << >>
  /\ peeps = << >>
  /\ deathQueue = << >>
  /\ moveQueue = << >>
  /\ pheromones = << >>
  /\ runMode = "STOP"
  /\ currentGeneration = 0
  /\ murderCount = 0
  /\ pc = << >>
  /\ simulationStep = << >>
  /\ forDone = {}
  /\ singleBy = 0
  /\ bpc = 0
  /\ boundaryLog = << >>
  /\ parents = << >>
  /\ verdict = << >>
  /\ sig = << >>
  /\ call = << >>
  /\ genome \in NetGenomes
  /\ nnet = [connections |-> << >>, neurons |-> << >>]
  /\ ff = [at |-> "unwired"]

outside == <<p, grid, peeps, deathQueue, moveQueue, pheromones, runMode,
             currentGeneration, murderCount, pc, simulationStep, forDone,
             singleBy, bpc, boundaryLog, parents, verdict, sig, call>>

CreateWiringFromGenome ==
  /\ ff.at = "unwired"
  /\ nnet' = Wiring(genome)
  /\ ff' = [at |-> "wired"]
  /\ UNCHANGED <<genome, outside>>

\* entry of feedForward: actionLevels.fill(0.0), neuronAccumulators(size, 0.0)
FeedForwardEnter ==
  /\ ff.at = "wired"
  /\ ff' = [ at |-> "loop", conn |-> 1, neuronOutputsComputed |-> FALSE,
             actionLevels |-> [a \in 0..(NUM_ACTIONS - 1) |-> << >>],
             neuronAccumulators |-> [n \in 1..Len(nnet.neurons) |-> << >>],
             trace |-> << >> ]
  /\ UNCHANGED <<genome, nnet, outside>>

\* the neurons the latch loop writes
Latched == { n \in 1..Len(nnet.neurons) : nnet.neurons[n].driven }

\* inputVal of a connection, read from the sensor or from the neuron outputs
InputVal(neurons, conn) ==
  IF conn.sourceType = SENSOR THEN <<"sensor", conn.sourceNum>>
  ELSE <<"neuron", conn.sourceNum, neurons[conn.sourceNum + 1].output>>

\* one iteration of the loop over nnet.connections; the neurons are latched
\* first if this is the first connection to an action
FeedForwardConnection ==
  /\ ff.at = "loop"
  /\ ff.conn <= Len(nnet.connections)
  /\ LET conn == nnet.connections[ff.conn]
         latch == conn.sinkType = ACTION_SINK /\ ~ff.neuronOutputsComputed
         neurons == IF latch
                    THEN [n \in 1..Len(nnet.neurons) |->
                            IF n \in Latched
                            THEN [nnet.neurons[n] EXCEPT !.output = @ + 1]
                            ELSE nnet.neurons[n]]
                    ELSE nnet.neurons
         inputVal == InputVal(neurons, conn)
         latches == IF latch THEN << [op |-> "latch", neurons |-> Latched] >>
                    ELSE << >>
     IN  /\ nnet' = [nnet EXCEPT !.neurons = neurons]
         /\ ff' = [ff EXCEPT
              !.conn = @ + 1,
              !.neuronOutputsComputed = @ \/ latch,
              !.actionLevels =
                 IF conn.sinkType = ACTION_SINK
                 THEN [@ EXCEPT ![conn.sinkNum] = Append(@, inputVal)] ELSE @,
              !.neuronAccumulators =
                 IF conn.sinkType = ACTION_SINK THEN @
                 ELSE [@ EXCEPT ![conn.sinkNum + 1] = Append(@, inputVal)],
              !.trace = @ \o latches \o
                 << [ op |-> IF conn.sinkType = ACTION_SINK
                             THEN "action" ELSE "accumulate",
                      sinkNum |-> conn.sinkNum, inputVal |-> inputVal ] >>]
  /\ UNCHANGED <<genome, outside>>

FeedForwardReturn ==
  /\ ff.at = "loop"
  /\ ff.conn > Len(nnet.connections)
  /\ ff' = [ff EXCEPT !.at = "returned"]
  /\ UNCHANGED <<genome, nnet, outside>>

NextNet ==
  \/ CreateWiringFromGenome
  \/ FeedForwardEnter
  \/ FeedForwardConnection
  \/ FeedForwardReturn

SpecNet == InitNet /\ [][NextNet]_vars

(***************************************************************************)
(* Properties of the compiled network, checked under SpecNet.              *)
(***************************************************************************)

\* neurons of net with a connection into an action or into a neuron of set
FeedersOf(net, set) ==
  { c.sourceNum : c \in { d \in Range(net.connections) :
                            /\ d.sourceType = NEURON
                            /\ \/ d.sinkType = ACTION_SINK
                               \/ d.sinkNum \in set } }

\* neurons with a path of one or more connections to an action
RECURSIVE ReachingAction(_, _)
ReachingAction(net, set) ==
  LET more == set \cup FeedersOf(net, set)
  IN  IF more = set THEN set ELSE ReachingAction(net, more)

\* C11: N1 -- every neuron of the compiled network has a path of one or
\* more connections to some action sink.
C11_N1 ==
  ff.at # "unwired" =>
    \A n \in 0..(Len(nnet.neurons) - 1) : n \in ReachingAction(nnet, {})

\* C12: N2 -- in the compiled connection list every connection whose sink is
\* a neuron comes before every connection whose sink is an action.
C12_N2 ==
  ff.at # "unwired" =>
    \A i, j \in 1..Len(nnet.connections) :
      (nnet.connections[i].sinkType = NEURON
         /\ nnet.connections[j].sinkType = ACTION_SINK) => i < j

\* a wired network holding both kinds of connection, compiled from a genome
\* in which a gene to an action comes before a gene to a neuron
C12_Witness ==
  /\ ff.at = "wired"
  /\ \E i, j \in 1..Len(nnet.connections) :
       /\ nnet.connections[i].sinkType = NEURON
       /\ nnet.connections[j].sinkType = ACTION_SINK
  /\ Len(nnet.connections) = Len(genome)
  /\ genome[1].sinkType = ACTION_SINK
  /\ \E k \in 2..Len(genome) : genome[k].sinkType = NEURON

\* positions of the trace of feedForward holding the given operation
TraceOf(op) == { k \in 1..Len(ff.trace) : ff.trace[k].op = op }

\* C13: N3 -- in a tick feedForward latches every driven neuron exactly
\* once, after every neuron-sink connection has been accumulated from the
\* pre-step outputs and before any action-sink connection contributes.
C13_N3 ==
  ff.at = "returned" =>
    /\ \A n \in Latched :
         Cardinality({ k \in TraceOf("latch") : n \in ff.trace[k].neurons }) = 1
    /\ \A k \in TraceOf("accumulate") :
         /\ \A l \in TraceOf("latch") : k < l
         /\ ff.trace[k].inputVal[1] = "neuron" => ff.trace[k].inputVal[3] = 0
    /\ \A k \in TraceOf("action") : \A l \in TraceOf("latch") : l < k

(***************************************************************************)
(* SpecLayer: the Signals interface called directly, increment and fade in *)
(* any order on layer 0.  The starting layers are those a caller reaches   *)
(* by repeating one deposit; call records the last call and the layer it   *)
(* found.                                                                  *)
(***************************************************************************)
LibSize == 5
LayerCalls == 2

LibParams == [RunParams EXCEPT !.gridSize_X = LibSize, !.gridSize_Y = LibSize]

\* the layer that the given number of deposits at loc leaves on an empty
\* layer: every deposit adds 3 to loc and 1 to each of its neighbours
Deposited(loc, times) ==
  [c \in Cells |->
     IF c = loc THEN Min(SIGNAL_MAX, 3 * times)
     ELSE IF c \in Range(VisitNeighborhood(loc, 3)) THEN Min(SIGNAL_MAX, times)
          ELSE 0]

InitLayer ==
  /\ p = LibParams
  /\ grid = GridZeroFill
  /\ peeps = << >>
  /\ deathQueue = << >>
  /\ moveQueue = << >>
  /\ runMode = "STOP"
  /\ currentGeneration = 0
  /\ murderCount = 0
  /\ pc = << >>
  /\ simulationStep = << >>
  /\ forDone = {}
  /\ singleBy = 0
  /\ bpc = 0
  /\ boundaryLog = << >>
  /\ parents = << >>
  /\ verdict = << >>
  /\ sig = << >>
  /\ genome = << >>
  /\ nnet = << >>
  /\ ff = << >>
  /\ \E loc \in Cells, times \in {0, 1, 84, 85, 253, 254, 255} :
       pheromones = Deposited(loc, times)
  /\ call = [fn |-> "none", n |-> 0]

apart == <<p, grid, peeps, deathQueue, moveQueue, runMode, currentGeneration,
           murderCount, pc, simulationStep, forDone, singleBy, bpc,
           boundaryLog, parents, verdict, sig, genome, nnet, ff>>

\* pheromones.increment(0, loc)
CallIncrement(loc) ==
  /\ call.n < LayerCalls
  /\ pheromones' = Increment(pheromones, loc)
  /\ call' = [fn |-> "increment", n |-> call.n + 1, loc |-> loc,
              before |-> pheromones]
  /\ UNCHANGED apart

\* pheromones.fade(0)
CallFade ==
  /\ call.n < LayerCalls
  /\ pheromones' = Fade(pheromones)
  /\ call' = [fn |-> "fade", n |-> call.n + 1, before |-> pheromones]
  /\ UNCHANGED apart

NextLayer ==
  \/ \E loc \in Cells : CallIncrement(loc)
  \/ CallFade

SpecLayer == InitLayer /\ [][NextLayer]_vars

\* the in-bounds cells within Euclidean distance radius = h / 2 of loc
Disc(loc, h) ==
  { c \in Cells : 4 * ((c.x - loc.x) * (c.x - loc.x)
                        + (c.y - loc.y) * (c.y - loc.y)) <= h * h }

\* C14: a deposit at loc adds 1 to every in-bounds cell of the radius-1.5
\* neighbourhood of loc and then 2 to loc itself, each addition saturating at
\* 255, and changes no other cell; on an all-zero layer a deposit at an
\* interior cell leaves it at 3, its 8 neighbours at 1 and the rest at 0.
C14_Deposit ==
  call.fn = "increment" =>
    /\ \A c \in Cells :
         pheromones[c] =
           IF c = call.loc
           THEN Min(255, Min(255, call.before[c] + 1) + 2)
           ELSE IF c \in Disc(call.loc, 3)
                THEN Min(255, call.before[c] + 1)
                ELSE call.before[c]
    /\ (call.before = SignalsZeroFill /\ ~IsBorder(call.loc)) =>
         /\ pheromones[call.loc] = 3
         /\ Cardinality({ c \in Cells : pheromones[c] = 1 }) = 8
         /\ \A c \in Cells :
              pheromones[c] = 1 <=>
                (c # call.loc /\ Abs(c.x - call.loc.x) <= 1
                              /\ Abs(c.y - call.loc.y) <= 1)
         /\ \A c \in Cells : pheromones[c] \in {0, 1, 3}

\* a deposit at an interior cell of an all-zero layer has been made
C14_Witness ==
  /\ call.fn = "increment"
  /\ call.before = SignalsZeroFill
  /\ ~IsBorder(call.loc)
  /\ pheromones[call.loc] = 3

\* C15: fade replaces the value v of every cell by v - 1 if v > 0 and leaves
\* it 0 otherwise, so a cell holding 3 holds 2 after one fade.
C15_FadeDecrements ==
  call.fn = "fade" =>
    \A c \in Cells :
      pheromones[c] = IF call.before[c] > 0 THEN call.before[c] - 1 ELSE 0

\* the sum of the layer over the 9-cell neighbourhood of loc
RECURSIVE SumOver(_, _)
SumOver(layer, cells) ==
  IF cells = {} THEN 0
  ELSE LET c == CHOOSE d \in cells : TRUE
       IN  layer[c] + SumOver(layer, cells \ {c})

Increase == SumOver(pheromones, Disc(call.loc, 3))
              - SumOver(call.before, Disc(call.loc, 3))

\* no addition of the deposit reaches the maximum
Unsaturated ==
  /\ call.before[call.loc] + 3 <= SIGNAL_MAX
  /\ \A c \in Disc(call.loc, 3) : call.before[c] + 1 <= SIGNAL_MAX

\* C16 as stated: S1 -- a deposit increases the sum over the affected
\* neighbourhood by at least 1 and at most 10, saturation permitting.
C16_S1 ==
  call.fn = "increment" =>
    /\ Increase <= 10
    /\ Unsaturated => Increase >= 1

\* C16 amended: a deposit increases the sum over the affected neighbourhood
\* by at most 11; when no addition saturates, by exactly 2 plus the number
\* of in-bounds cells of the neighbourhood, which is 6 at a corner, 8 on an
\* edge and 11 in the interior; it never decreases the sum.
C16_S1AtMost11 ==
  call.fn = "increment" =>
    /\ Increase >= 0
    /\ Increase <= 11
    /\ Unsaturated =>
         /\ Increase = 2 + Cardinality(Disc(call.loc, 3))
         /\ Increase \in {6, 8, 11}
         /\ ~IsBorder(call.loc) => Increase = 11

\* a deposit at an interior cell, none of whose additions saturated, has
\* raised the sum by 11
C16_Witness ==
  /\ call.fn = "increment"
  /\ ~IsBorder(call.loc)
  /\ Unsaturated
  /\ Increase = 11

(***************************************************************************)
(* SpecLib: single calls of visitNeighborhood and Dir::rotate on a         *)
(* LibSize x LibSize grid.  A radius is given in halves: h stands for the  *)
(* radius h / 2.                                                           *)
(***************************************************************************)
LibRadius2 == 6
LibTurns == 9

InitLib ==
  /\ p = LibParams
  /\ grid = GridZeroFill
  /\ peeps = << >>
  /\ deathQueue = << >>
  /\ moveQueue = << >>
  /\ pheromones = SignalsZeroFill
  /\ runMode = "STOP"
  /\ currentGeneration = 0
  /\ murderCount = 0
  /\ pc = << >>
  /\ simulationStep = << >>
  /\ forDone = {}
  /\ singleBy = 0
  /\ bpc = 0
  /\ boundaryLog = << >>
  /\ parents = << >>
  /\ verdict = << >>
  /\ sig = << >>
  /\ genome = << >>
  /\ nnet = << >>
  /\ ff = << >>
  /\ call = [fn |-> "none"]

beside == <<p, grid, peeps, deathQueue, moveQueue, pheromones, runMode,
            currentGeneration, murderCount, pc, simulationStep, forDone,
            singleBy, bpc, boundaryLog, parents, verdict, sig, genome, nnet,
            ff>>

\* visitNeighborhood(loc, h / 2, f) with an f that records its argument
CallVisitNeighborhood(loc, h) ==
  /\ call.fn = "none"
  /\ call' = [fn |-> "visitNeighborhood", loc |-> loc, h |-> h,
              visited |-> VisitNeighborhood(loc, h)]
  /\ UNCHANGED beside

\* Dir(d).rotate(n).rotate(m) and Dir(d).rotate(n + m)
CallRotate(d, n, m) ==
  /\ call.fn = "none"
  /\ call' = [fn |-> "rotate", d |-> d, n |-> n, m |-> m,
              once |-> Rotate(d, n), twice |-> Rotate(Rotate(d, n), m),
              sum |-> Rotate(d, n + m)]
  /\ UNCHANGED beside

NextLib ==
  \/ \E loc \in Cells, h \in 0..LibRadius2 : CallVisitNeighborhood(loc, h)
  \/ \E d \in SW..NE, n, m \in (-LibTurns)..LibTurns : CallRotate(d, n, m)

SpecLib == InitLib /\ [][NextLib]_vars

C20_R1 ==
  call.fn = "rotate" =>
    /\ call.d # CENTER => call.twice = call.sum
    /\ call.n = 0 => call.once = call.d
    /\ call.d = CENTER => (call.once = CENTER /\ call.twice = CENTER)

\* a rotation by a negative and then a positive count has been composed
C20_Witness ==
  /\ call.fn = "rotate"
  /\ call.d = N
  /\ call.n = -3
  /\ call.m = 5
  /\ call.twice = E

(***************************************************************************)
(* SpecChild: generateChildGenome, one action per phase of the function.   *)
(* Rates are given in thousandths (pointMutationRate 0.001 is 1).  Every   *)
(* random draw is a choice over the values the generator can return.       *)
(***************************************************************************)
ChildMaxLen == 2
ChildParents == 2
ChildBitDraws == 1

\* the outcomes of  randomUint() / (float)RANDOM_UINT_MAX <= rate
BelowOrEqual(rate) == { b \in BOOLEAN : IF b THEN rate >= 0 ELSE rate < 1000 }

\* the outcomes of  randomUint() / (float)RANDOM_UINT_MAX < rate : the
\* quotient ranges over [0, 1]
Below(rate) == { b \in BOOLEAN : IF b THEN rate > 0 ELSE rate <= 1000 }

ChildGenePool ==
  { Gene(SENSOR, 0, NEURON, 0, 8192), Gene(NEURON, 1, ACTION_SINK, 1, -8192) }

ChildGenomes ==
  UNION { [1..n -> ChildGenePool] : n \in 1..ChildMaxLen }

ChildParentLists ==
  UNION { [1..n -> ChildGenomes] : n \in 1..ChildParents }

ChildParams ==
  { LibParams @@
      [ genomeMaxLength |-> ChildMaxLen, deletionRatio |-> 500,
        sexualReproduction |-> sexual, chooseParentsByFitness |-> byFitness,
        geneInsertionDeletionRate |-> insDel, pointMutationRate |-> point ] :
      sexual \in BOOLEAN, byFitness \in BOOLEAN,
      insDel \in {0, 1}, point \in {0, 1} }

InitChild ==
  /\ p \in ChildParams
  /\ grid = GridZeroFill
  /\ peeps = << >>
  /\ deathQueue = << >>
  /\ moveQueue = << >>
  /\ pheromones = SignalsZeroFill
  /\ runMode = "STOP"
  /\ currentGeneration = 0
  /\ murderCount = 0
  /\ pc = << >>
  /\ simulationStep = << >>
  /\ forDone = {}
  /\ singleBy = 0
  /\ bpc = 0
  /\ boundaryLog = << >>
  /\ parents = << >>
  /\ verdict = << >>
  /\ sig = << >>
  /\ genome = << >>
  /\ nnet = << >>
  /\ ff = << >>
  /\ \E parentGenomes \in ChildParentLists :
       call = [ fn |-> "generateChildGenome", at |-> "parents",
                parentGenomes |-> parentGenomes, parent1Idx |-> 0,
                parent2Idx |-> 0, genome |-> << >>, numberOfGenes |-> 0 ]

\* v with bit k inverted, stored in a field of the given width
FlipBit(v, k, width) ==
  (IF (v \div (2 ^ k)) % 2 = 1 THEN v - 2 ^ k ELSE v + 2 ^ k) % (2 ^ width)

\* weight ^= (1 << k) on an int16_t
FlipWeight(w, k) ==
  LET u == FlipBit(w % 65536, k, 16)
  IN  IF u >= 32768 THEN u - 65536 ELSE u

\* randomBitFlip, method 1: the genomes it can leave behind when
\* randomUint(0, 7) ranges over bits8 and randomUint(1, 15) over bits16
RandomBitFlipDrawing(genome_, bits8, bits16) ==
  LET at(e) == genome_[e]
  IN  UNION { {[genome_ EXCEPT ![e].sourceType = 1 - at(e).sourceType],
               [genome_ EXCEPT ![e].sinkType = 1 - at(e).sinkType]}
              \cup {[genome_ EXCEPT ![e].sourceNum =
                       FlipBit(at(e).sourceNum, k, 7)] : k \in bits8}
              \cup {[genome_ EXCEPT ![e].sinkNum =
                       FlipBit(at(e).sinkNum, k, 7)] : k \in bits8}
              \cup {[genome_ EXCEPT ![e].weight =
                       FlipWeight(at(e).weight, k)] : k \in bits16}
              : e \in 1..Len(genome_) }

\* randomBitFlip inside generateChildGenome, with the draws of the bit
\* position cut down to ChildBitDraws values
RandomBitFlip(genome_) ==
  RandomBitFlipDrawing(genome_, 0..(ChildBitDraws - 1), 1..ChildBitDraws)

\* cropLength: the genomes it can leave behind
CropLength(genome_, length) ==
  IF Len(genome_) > length /\ length > 0
  THEN { SubSeq(genome_, Len(genome_) - length + 1, Len(genome_)),
         SubSeq(genome_, 1, length) }
  ELSE { genome_ }

\* randomInsertDeletion erasing or appending without looking at the size
RandomInsertDeletionUnguarded(genome_) ==
  UNION { IF ~fires THEN { genome_ }
          ELSE IF deletion
               THEN { [k \in 1..(Len(genome_) - 1) |->
                         IF k < i THEN genome_[k] ELSE genome_[k + 1]] :
                      i \in 1..Len(genome_) }
               ELSE { Append(genome_, g) : g \in ChildGenePool }
          : fires \in Below(p.geneInsertionDeletionRate),
            deletion \in Below(p.deletionRatio) }

\* randomInsertDeletion: the genomes it can leave behind
RandomInsertDeletion(genome_) ==
  UNION { IF ~fires THEN { genome_ }
          ELSE IF deletion
               THEN IF Len(genome_) > 1
                    THEN { [k \in 1..(Len(genome_) - 1) |->
                              IF k < i THEN genome_[k] ELSE genome_[k + 1]] :
                           i \in 1..Len(genome_) }
                    ELSE { genome_ }
               ELSE IF Len(genome_) < p.genomeMaxLength
                    THEN { Append(genome_, g) : g \in ChildGenePool }
                    ELSE { genome_ }
          : fires \in Below(p.geneInsertionDeletionRate),
            deletion \in Below(p.deletionRatio) }

\* overlayWithSliceOf: genome_ with gShorter[index0, index1) copied over
\* the same positions
OverlayWithSliceOf(genome_, gShorter) ==
  { [k \in 1..Len(genome_) |->
       IF Min(i0, i1) < k /\ k <= Max(i0, i1) THEN gShorter[k]
       ELSE genome_[k]] :
    i0 \in 0..(Len(gShorter) - 1), i1 \in 0..Len(gShorter) }

\* the sexualReproduction branch: overlay, average length, crop
Crossover(g1, g2) ==
  LET overlaid == IF Len(g1) > Len(g2) THEN OverlayWithSliceOf(g1, g2)
                  ELSE OverlayWithSliceOf(g2, g1)
      size == Len(g1) + Len(g2)
      sums == IF size % 2 = 1 THEN { size, size + 1 } ELSE { size }
  IN  UNION { CropLength(g, sum \div 2) : g \in overlaid, sum \in sums }

\* generateChildGenome, parent selection
ChooseParents ==
  /\ call.fn = "generateChildGenome"
  /\ call.at = "parents"
  /\ LET size == Len(call.parentGenomes)
     IN  IF p.chooseParentsByFitness /\ size > 1
         THEN \E i1 \in 1..(size - 1) : \E i2 \in 0..(i1 - 1) :
                call' = [call EXCEPT !.at = "combine", !.parent1Idx = i1,
                                     !.parent2Idx = i2]
         ELSE \E i1, i2 \in 0..(size - 1) :
                call' = [call EXCEPT !.at = "combine", !.parent1Idx = i1,
                                     !.parent2Idx = i2]
  /\ UNCHANGED beside

\* generateChildGenome, crossover or copy of the second parent
Combine ==
  /\ call.fn = "generateChildGenome"
  /\ call.at = "combine"
  /\ LET g1 == call.parentGenomes[call.parent1Idx + 1]
         g2 == call.parentGenomes[call.parent2Idx + 1]
     IN  \E g \in (IF p.sexualReproduction THEN Crossover(g1, g2)
                   ELSE { g2 }) :
           call' = [call EXCEPT !.at = "insertDeletion", !.genome = g]
  /\ UNCHANGED beside

\* generateChildGenome, the call of randomInsertDeletion and the entry of
\* applyPointMutations
InsertDeletion ==
  /\ call.fn = "generateChildGenome"
  /\ call.at = "insertDeletion"
  /\ \E g \in RandomInsertDeletion(call.genome) :
       call' = [call EXCEPT !.at = "pointMutations", !.genome = g,
                            !.numberOfGenes = Len(g)]
  /\ UNCHANGED beside

\* applyPointMutations, one iteration of its loop
PointMutation ==
  /\ call.fn = "generateChildGenome"
  /\ call.at = "pointMutations"
  /\ call.numberOfGenes > 0
  /\ \E fires \in Below(p.pointMutationRate) :
       \E g \in (IF fires THEN RandomBitFlip(call.genome)
                 ELSE { call.genome }) :
         call' = [call EXCEPT !.genome = g,
                              !.numberOfGenes = call.numberOfGenes - 1]
  /\ UNCHANGED beside

\* generateChildGenome, return genome
ReturnChild ==
  /\ call.fn = "generateChildGenome"
  /\ call.at = "pointMutations"
  /\ call.numberOfGenes = 0
  /\ call' = [call EXCEPT !.at = "returned"]
  /\ UNCHANGED beside

NextChild ==
  \/ ChooseParents
  \/ Combine
  \/ InsertDeletion
  \/ PointMutation
  \/ ReturnChild

SpecChild == InitChild /\ [][NextChild]_vars

\* C17: with sexualReproduction = false and both mutation rates zero,
\* generateChildGenome of a parent list holding the single genome g returns
\* a genome equal to g, gene for gene.
C17_CloneOfSingleParent ==
  ( /\ call.fn = "generateChildGenome"
    /\ call.at = "returned"
    /\ ~p.sexualReproduction
    /\ p.pointMutationRate = 0
    /\ p.geneInsertionDeletionRate = 0
    /\ Len(call.parentGenomes) = 1 ) =>
    /\ Len(call.genome) = Len(call.parentGenomes[1])
    /\ \A k \in 1..Len(call.genome) :
         call.genome[k] = call.parentGenomes[1][k]

\* a two-gene genome has been returned as the child of itself with
\* reproduction asexual and both rates zero
C17_Witness ==
  /\ call.fn = "generateChildGenome"
  /\ call.at = "returned"
  /\ ~p.sexualReproduction
  /\ p.pointMutationRate = 0
  /\ p.geneInsertionDeletionRate = 0
  /\ Len(call.parentGenomes) = 1
  /\ Len(call.parentGenomes[1]) = 2
  /\ call.genome = call.parentGenomes[1]

\* C18: every genome returned by generateChildGenome has at least 1 and at
\* most genomeMaxLength genes, the parents' lengths being within those
\* bounds, whatever parent choice, crossover, cropping, insertion/deletion
\* and point mutation do.
C18_ChildLength ==
  (call.fn = "generateChildGenome" /\ call.at = "returned") =>
    /\ Len(call.genome) >= 1
    /\ Len(call.genome) <= p.genomeMaxLength

\* a child has been returned after a crossover of parents of different
\* lengths that was cropped, or after a deletion left it shorter than both
\* parents
C18_Witness ==
  /\ call.fn = "generateChildGenome"
  /\ call.at = "returned"
  /\ p.sexualReproduction
  /\ p.geneInsertionDeletionRate > 0
  /\ Len(call.parentGenomes[call.parent1Idx + 1])
       # Len(call.parentGenomes[call.parent2Idx + 1])
  /\ Len(call.genome) = 1

(***************************************************************************)
(* More properties of the compiled network, checked under SpecNet.         *)
(***************************************************************************)

\* the node map of createWiringFromGenome after culling and renumbering
Survivors(genome_) ==
  LET connectionList == MakeRenumberedConnectionList(genome_)
  IN  Renumbered(CullUselessNeurons(connectionList,
                                    MakeNodeList(connectionList)).nodeMap)

\* connections of net into neuron i from a sensor or from another neuron
InputsFromOthers(net, i) ==
  { k \in 1..Len(net.connections) :
      /\ net.connections[k].sinkType = NEURON
      /\ net.connections[k].sinkNum = i
      /\ ~(net.connections[k].sourceType = NEURON
             /\ net.connections[k].sourceNum = i) }

\* C21: after createWiringFromGenome the neuron vector has exactly k
\* entries, k the number of neurons that survive culling, each with the
\* initial output; and for every new index i in 0..k-1, driven[i] holds
\* exactly when the neuron renumbered to i has a connection coming in from a
\* sensor or from a different neuron.
C21_NeuronVector ==
  ff.at = "wired" =>
    /\ Len(nnet.neurons) = Cardinality(DOMAIN Survivors(genome))
    /\ \A i \in 0..(Len(nnet.neurons) - 1) :
         /\ nnet.neurons[i + 1].output = 0
         /\ nnet.neurons[i + 1].driven <=> InputsFromOthers(nnet, i) # {}

\* genome_ consists of the genes n1 -> n2, ..., n(m-1) -> nm, nm -> nm, in
\* any order, for distinct neurons n1..nm
IsChainIntoSelfLoop(genome_) ==
  LET connectionList == MakeRenumberedConnectionList(genome_)
      m == Len(connectionList)
      edges == { <<connectionList[k].sourceNum, connectionList[k].sinkNum>> :
                 k \in 1..m }
  IN  /\ \A k \in 1..m : /\ connectionList[k].sourceType = NEURON
                         /\ connectionList[k].sinkType = NEURON
      /\ \E ns \in [1..m -> 0..(p.maxNumberNeurons - 1)] :
           /\ \A i, j \in 1..m : ns[i] = ns[j] => i = j
           /\ edges = { <<ns[i], ns[i + 1]>> : i \in 1..(m - 1) }
                        \cup { <<ns[m], ns[m]>> }

\* C22: culling cascades -- a genome of neuron-to-neuron genes forming a
\* chain that ends in a neuron whose only output is a self-loop compiles to
\* a network with no connections and no neurons.
C22_CullCascade ==
  (ff.at = "wired" /\ IsChainIntoSelfLoop(genome)) =>
    /\ nnet.connections = << >>
    /\ nnet.neurons = << >>

\* the genome NEURON 0 -> NEURON 1, NEURON 1 -> NEURON 2, NEURON 2 ->
\* NEURON 2 has been compiled to the empty network
C22_Witness ==
  /\ ff.at = "wired"
  /\ Len(genome) = 3
  /\ \A k \in 1..3 : /\ genome[k].sourceType = NEURON
                     /\ genome[k].sinkType = NEURON
                     /\ genome[k].sourceNum = k - 1
                     /\ genome[k].sinkNum = Min(k, 2)
  /\ IsChainIntoSelfLoop(genome)
  /\ nnet.connections = << >>
  /\ nnet.neurons = << >>

\* the number of runs of the body of the cull loop for genome_
PassesFor(genome_) ==
  LET connectionList == MakeRenumberedConnectionList(genome_)
  IN  CullPasses(connectionList, MakeNodeList(connectionList))

\* C23: P1 -- for every genome createWiringFromGenome terminates, and the
\* cull loop (repeat until nothing qualifies) runs at most maxNumberNeurons
\* times.
C23_P1 ==
  ff.at = "wired" => PassesFor(genome) <= p.maxNumberNeurons

\* C23, amended: the cull loop runs at most maxNumberNeurons + 1 times, the
\* last run being the one that finds nothing to remove; every run before the
\* last removes at least one neuron.
C23_P1PlusOne ==
  ff.at = "wired" =>
    LET connectionList == MakeRenumberedConnectionList(genome)
        before == Cardinality(DOMAIN MakeNodeList(connectionList))
        after == Cardinality(DOMAIN Survivors(genome))
    IN  /\ before <= p.maxNumberNeurons
        /\ PassesFor(genome) <= (before - after) + 1
        /\ PassesFor(genome) <= p.maxNumberNeurons + 1

\* a genome whose cull loop ran maxNumberNeurons + 1 times has been compiled
C23_Witness ==
  /\ ff.at = "wired"
  /\ PassesFor(genome) = p.maxNumberNeurons + 1

(***************************************************************************)
(* SpecGen: one generation run by a single thread.  The agents are ticked  *)
(* in any order, endOfSimulationStep is one action, and the run stops      *)
(* where spawnNewGeneration has evaluated the survivors and handed         *)
(* murderCount to the epoch log.  boundaryLog is kept for the whole        *)
(* generation: the placement at birth, then for every step the death       *)
(* queue that was counted and the locations the step ended with.           *)
(***************************************************************************)
GenSteps == 2
GenDirs == 8
GenWallSize == 3
GenSeqSizeY == 84
GenKillSize == 2
GenKillPopulation == 3
GenKillSteps == 1
GenKillDirs == 2

\* the arenas: an open square with an interior, a column crossed by the
\* five spots of barrier preset 6, and a crowded square
GenScenarios ==
  { [ params |-> [RunParams EXCEPT
                    !.gridSize_X = GenWallSize, !.gridSize_Y = GenWallSize,
                    !.population = 1, !.stepsPerGeneration = GenSteps,
                    !.maxGenerations = 1, !.numThreads = 1,
                    !.challenge = challenge],
      dirs |-> GenDirs ] :
    challenge \in {CHALLENGE_TOUCH_ANY_WALL, CHALLENGE_MIGRATE_DISTANCE} }
  \cup
  { [ params |-> [RunParams EXCEPT
                    !.gridSize_X = 1, !.gridSize_Y = GenSeqSizeY,
                    !.population = 1, !.stepsPerGeneration = GenSteps,
                    !.maxGenerations = 1, !.numThreads = 1,
                    !.challenge = CHALLENGE_LOCATION_SEQUENCE,
                    !.barrierType = 6],
      dirs |-> GenDirs ],
    [ params |-> [RunParams EXCEPT
                    !.gridSize_X = GenKillSize, !.gridSize_Y = GenKillSize,
                    !.population = GenKillPopulation,
                    !.stepsPerGeneration = GenKillSteps,
                    !.maxGenerations = 1, !.numThreads = 1,
                    !.challenge = CHALLENGE_TOUCH_ANY_WALL,
                    !.actionsBuilt = KILL_FORWARD + 1],
      dirs |-> GenKillDirs ] }

\* what the log keeps of a step: the death queue murderCount was raised by
\* and where everybody is when the step is over
Snapshot(op, queue, ps) ==
  [ op |-> op, killed |-> queue, locs |-> [i \in Indices |-> ps[i].loc] ]

InitGen ==
  /\ \E scenario \in GenScenarios :
       /\ p = scenario.params
       /\ \E arena \in { CreateBarrier(GridZeroFill) } :
            \E f \in PlacementsOn(arena) :
              \E dirs \in [Indices ->
                             { Rotate(N, n) : n \in 0..(scenario.dirs - 1) }] :
                /\ grid = PlaceOn(arena, f)
                /\ peeps = [i \in Indices |->
                              Initialize(i, f[i], "random", "wired", dirs[i])]
  /\ deathQueue = << >>
  /\ moveQueue = << >>
  /\ pheromones = SignalsZeroFill
  /\ runMode = "RUN"
  /\ currentGeneration = 0
  /\ murderCount = 0
  /\ pc = [t \in Threads |-> "omp_for"]
  /\ simulationStep = [t \in Threads |-> 0]
  /\ forDone = {}
  /\ singleBy = 0
  /\ bpc = 0
  /\ boundaryLog = << Snapshot("birth", << >>, peeps) >>
  /\ NoHarness
  /\ parents = << >>
  /\ verdict = << >>
  /\ sig = << >>

\* the omp for of simulator() with one thread
GenTick(individual) ==
  /\ simulationStep[1] < p.stepsPerGeneration
  /\ ForIteration(1, individual)

\* omp single: murderCount += peeps.deathQueueSize(); endOfSimulationStep();
\* then ++simulationStep and the loop test
GenEndOfStep ==
  /\ pc[1] = "omp_for"
  /\ forDone = Indices
  /\ murderCount' = murderCount + Len(deathQueue)
  /\ \E victims \in SUBSET Indices :
       /\ IF p.challenge = CHALLENGE_RADIOACTIVE_WALLS
          THEN /\ Doomed(peeps, simulationStep[1]) \subseteq victims
               /\ victims \subseteq Exposed(peeps, simulationStep[1])
          ELSE victims = {}
       /\ LET hooked == IF p.challenge = CHALLENGE_TOUCH_ANY_WALL
                        THEN TouchAnyWall(peeps)
                        ELSE IF p.challenge = CHALLENGE_LOCATION_SEQUENCE
                             THEN LocationSequence(peeps)
                             ELSE peeps
              buried == DrainDeathQueue([grid |-> grid, peeps |-> hooked],
                                        QueueVictims(deathQueue, victims, 1))
              moved == DrainMoveQueue(buried, moveQueue)
          IN  /\ grid' = moved.grid
              /\ peeps' = moved.peeps
              /\ boundaryLog' =
                   Append(boundaryLog, Snapshot("step", deathQueue, moved.peeps))
  /\ deathQueue' = << >>
  /\ moveQueue' = << >>
  /\ pheromones' = Fade(Fade(pheromones))
  /\ forDone' = {}
  /\ simulationStep' = [simulationStep EXCEPT ![1] = @ + 1]
  /\ pc' = IF simulationStep[1] + 1 < p.stepsPerGeneration
           THEN pc ELSE [pc EXCEPT ![1] = "single_gen"]
  /\ UNCHANGED <<p, parents, verdict, sig, harness, runMode,
                 currentGeneration, singleBy, bpc>>

\* spawnNewGeneration(generation, murderCount) up to appendEpochLog
GenReport ==
  /\ pc[1] = "single_gen"
  /\ verdict' = [i \in Indices |->
                   PassedSurvivalCriterion(grid, peeps[i], p.challenge)]
  /\ parents' \in SortByScore(CollectParents(grid, peeps))
  /\ pc' = [pc EXCEPT ![1] = "reported"]
  /\ UNCHANGED <<world, p, sig, harness, runMode, currentGeneration,
                 murderCount, simulationStep, forDone, singleBy, bpc,
                 boundaryLog>>

NextGen ==
  \/ \E individual \in Indices : GenTick(individual)
  \/ GenEndOfStep
  \/ GenReport

SpecGen == InitGen /\ [][NextGen]_vars

(***************************************************************************)
(* Properties of a generation (SpecGen).                                   *)
(***************************************************************************)
Reported == pc = << "reported" >>

\* the cell individual i was placed on when the generation was initialised
BornAt(i) == boundaryLog[1].locs[i]

\* individuals some KILL_FORWARD queued for death during the generation
Victims ==
  UNION { Range(boundaryLog[k].killed) : k \in 1..Len(boundaryLog) }

\* C24: under CHALLENGE_TOUCH_ANY_WALL an agent alive at the end of the
\* generation passes exactly when it was on a border cell at birth or at
\* the end of some step, the last one included.
C24_TouchedAtSomePoint ==
  (Reported /\ p.challenge = CHALLENGE_TOUCH_ANY_WALL) =>
    \A i \in Indices :
      peeps[i].alive =>
        (verdict[i].passed <=>
           \E k \in 1..Len(boundaryLog) : IsBorder(boundaryLog[k].locs[i]))

\* C25: under CHALLENGE_LOCATION_SEQUENCE bit n of challengeBits is set only
\* if bits 0..n-1 are all set: the set bits form a contiguous low-order
\* prefix, however the agent moves.
C25_SequentialCredit ==
  p.challenge = CHALLENGE_LOCATION_SEQUENCE =>
    \A i \in Indices :
      /\ peeps[i].challengeBits < 2 ^ Len(BarrierCenters)
      /\ \A n \in 0..(Len(BarrierCenters) - 1) :
           Bit(peeps[i].challengeBits, n) = 1 =>
             \A m \in 0..(n - 1) : Bit(peeps[i].challengeBits, m) = 1

\* an agent within reach of the first two centers has been credited with
\* both, one per step, and with no other
C25_Witness ==
  /\ p.challenge = CHALLENGE_LOCATION_SEQUENCE
  /\ Reported
  /\ peeps[1].challengeBits = 3
  /\ \A k \in 1..Len(boundaryLog) :
       Length(CoordSub(boundaryLog[k].locs[1], BarrierCenters[2])) <= 9

\* C26: under CHALLENGE_MIGRATE_DISTANCE every live agent passes with score
\* |loc - birth location| / max(gridSize_X, gridSize_Y), the birth location
\* being the cell it was placed on; an agent that never moved scores 0.
C26_MigrateScore ==
  (Reported /\ p.challenge = CHALLENGE_MIGRATE_DISTANCE) =>
    \A i \in Indices :
      peeps[i].alive =>
        /\ verdict[i].passed
        /\ verdict[i].num * Max(p.gridSize_X, p.gridSize_Y)
             = Length(CoordSub(peeps[i].loc, BornAt(i))) * verdict[i].den

C29_LastMoveDir ==
  \A i \in DOMAIN peeps :
    /\ peeps[i].lastMoveDir \in (SW..NE) \ {CENTER}
    /\ (Len(boundaryLog) >= 2
          /\ boundaryLog[Len(boundaryLog)].op = "step"
          /\ boundaryLog[Len(boundaryLog)].locs[i]
               # boundaryLog[Len(boundaryLog) - 1].locs[i]) =>
         /\ peeps[i].loc = boundaryLog[Len(boundaryLog)].locs[i]
         /\ peeps[i].lastMoveDir =
              AsDir(CoordSub(peeps[i].loc,
                             boundaryLog[Len(boundaryLog) - 1].locs[i]))

\* an agent born facing north has moved to the south-west and faces there
C29_Witness ==
  /\ Len(boundaryLog) = 2
  /\ boundaryLog[2].op = "step"
  /\ boundaryLog[2].locs[1] = CoordAdd(BornAt(1), Coordinate(-1, -1))
  /\ peeps[1].lastMoveDir = SW


(***************************************************************************)
(* SpecFlip: one call of randomBitFlip on a genome, with every value the   *)
(* generator can return for the gene, the field and the bit position.      *)
(***************************************************************************)
FlipMaxLen == 2

FlipGenePool ==
  { Gene(SENSOR, 0, NEURON, 0, 8192),
    Gene(NEURON, 127, ACTION_SINK, 85, -8192),
    Gene(SENSOR, 64, ACTION_SINK, 3, -1) }

FlipGenomes == UNION { [1..n -> FlipGenePool] : n \in 1..FlipMaxLen }

InitFlip ==
  /\ p = LibParams
  /\ grid = GridZeroFill
  /\ peeps = << >>
  /\ deathQueue = << >>
  /\ moveQueue = << >>
  /\ pheromones = SignalsZeroFill
  /\ runMode = "STOP"
  /\ currentGeneration = 0
  /\ murderCount = 0
  /\ pc = << >>
  /\ simulationStep = << >>
  /\ forDone = {}
  /\ singleBy = 0
  /\ bpc = 0
  /\ boundaryLog = << >>
  /\ parents = << >>
  /\ verdict = << >>
  /\ sig = << >>
  /\ nnet = << >>
  /\ ff = << >>
  /\ genome \in FlipGenomes
  /\ call = [ fn |-> "randomBitFlip", at |-> "entry", before |-> genome ]

\* randomBitFlip(genome)
CallRandomBitFlip ==
  /\ call.fn = "randomBitFlip"
  /\ call.at = "entry"
  /\ genome' \in RandomBitFlipDrawing(genome, 0..7, 1..15)
  /\ call' = [call EXCEPT !.at = "returned"]
  /\ UNCHANGED <<world, runMode, currentGeneration, murderCount, pc,
                 simulationStep, forDone, singleBy, bpc, boundaryLog, parents,
                 verdict, sig, p, nnet, ff>>

NextFlip == CallRandomBitFlip

SpecFlip == InitFlip /\ [][NextFlip]_vars

\* the bit positions below width in which a and b differ
DifferingBits(a, b, width) ==
  { k \in 0..(width - 1) : Bit(a, k) # Bit(b, k) }

\* gene h is gene g with exactly one bit inverted, that bit being one a
\* point mutation may pick
OneBitApart(g, h) ==
  LET types == B2I(g.sourceType # h.sourceType)
                 + B2I(g.sinkType # h.sinkType)
      source == DifferingBits(g.sourceNum, h.sourceNum, 7)
      sink == DifferingBits(g.sinkNum, h.sinkNum, 7)
      weight == DifferingBits(g.weight % 65536, h.weight % 65536, 16)
  IN  /\ types + Cardinality(source) + Cardinality(sink)
           + Cardinality(weight) = 1
      /\ 0 \notin weight

\* C28: a point mutation inverts exactly one bit of one gene (a type bit,
\* one of bits 0..6 of a number or one of bits 1..15 of the weight), so the
\* mutated gene always differs from the original in exactly that bit; the
\* genome length and the other genes are unchanged.
C28_ExactlyOneBit ==
  (call.fn = "randomBitFlip" /\ call.at = "returned") =>
    /\ Len(genome) = Len(call.before)
    /\ \E e \in 1..Len(genome) :
         /\ OneBitApart(call.before[e], genome[e])
         /\ \A o \in 1..Len(genome) : o # e => genome[o] = call.before[o]


(***************************************************************************)
(* SpecSpawn: spawnNewGeneration(generation, murderCount) called once on   *)
(* the population a generation has left behind, under CHALLENGE_ALTRUISM   *)
(* and under a challenge of the other branch.  genomeSimilarity is not     *)
(* computed: who counts as kin of whom is a free choice.                   *)
(***************************************************************************)
SpawnSizeX == 4
SpawnSizeY == 3
SpawnPopulation == 2
SpawnGeneration == 11

altruismFactor == 10
generationToApplyKinship == 10

SpawnChallenges == { CHALLENGE_ALTRUISM, CHALLENGE_RIGHT_HALF }

InitSpawn ==
  /\ \E challenge \in SpawnChallenges :
       p = [RunParams EXCEPT !.gridSize_X = SpawnSizeX,
                             !.gridSize_Y = SpawnSizeY,
                             !.population = SpawnPopulation,
                             !.challenge = challenge]
  /\ \E f \in Placements, nn \in [Indices -> Nnets] :
       /\ grid = PlaceAll(f)
       /\ peeps = [i \in Indices |-> EndState(i, f[i], nn[i], TRUE, 0)]
  /\ currentGeneration \in (SpawnGeneration - 1)..SpawnGeneration
  /\ murderCount = 0
  /\ deathQueue = << >>
  /\ moveQueue = << >>
  /\ pheromones = SignalsZeroFill
  /\ runMode = "RUN"
  /\ pc = << >>
  /\ simulationStep = << >>
  /\ forDone = {}
  /\ singleBy = 0
  /\ bpc = 0
  /\ boundaryLog = << >>
  /\ parents = << >>
  /\ verdict = << >>
  /\ sig = << >>
  /\ genome = << >>
  /\ nnet = << >>
  /\ ff = << >>
  /\ call = [ fn |-> "spawnNewGeneration", at |-> "entry",
              generation |-> currentGeneration, result |-> 0,
              logged |-> << >>, initializer |-> "" ]

\* the else branch of the altruism loop: who is not a parent but passes
\* CHALLENGE_ALTRUISM_SACRIFICE with a network that has connections
RECURSIVE SacrificesFrom(_, _, _)
SacrificesFrom(g, ps, index) ==
  IF index > p.population THEN << >>
  ELSE LET passed == PassedSurvivalCriterion(g, ps[index], CHALLENGE_ALTRUISM)
           given == PassedSurvivalCriterion(g, ps[index],
                                            CHALLENGE_ALTRUISM_SACRIFICE)
       IN  (IF /\ ~(passed.passed /\ ps[index].nnet # "empty")
               /\ given.passed /\ ps[index].nnet # "empty"
            THEN << index >> ELSE << >>)
           \o SacrificesFrom(g, ps, index + 1)

\* An unsigned 32-bit value is kept by the integer nearest to zero that is
\* congruent to it modulo 2^32 (UINT_MAX is -1): sums and differences of
\* such integers are congruent to the wrapped results of the code.
\* The value is 0 when both 16-bit halves are.
Zero32(x) == x % 65536 = 0 /\ (x \div 65536) % 65536 = 0

\* RandomUintGenerator::operator()(min, max): the divisor max - min + 1 of
\* its remainder
RandomUintDivisor(min, max) == max - min + 1

\* parents.size() - 1 converted to unsigned: UINT_MAX for an empty list
SizeMinusOne(list) == Len(list) - 1

\* the inner loop over parents from startIndex on: the first possible parent
\* that is kin of the sacrificed individual, if there is one
FirstKin(list, startIndex, sacrificedIndex, kin) ==
  LET n == Len(list)
      at(count) == list[((startIndex + count) % n) + 1]
      hits == { count \in 0..(n - 1) : kin[sacrificedIndex][at(count).index] }
  IN  IF hits = {} THEN << >>
      ELSE << at(CHOOSE c \in hits : \A d \in hits : c <= d) >>

\* the survivingKin lists the loops over passes and sacrificesIndexes can
\* build from their k-th iteration on, list being non-empty
RECURSIVE SurvivingKin(_, _, _, _)
SurvivingKin(list, sacrificesIndexes, kin, k) ==
  IF k > altruismFactor * Len(sacrificesIndexes) THEN { << >> }
  ELSE LET sacrificedIndex ==
             sacrificesIndexes[((k - 1) % Len(sacrificesIndexes)) + 1]
       IN  { FirstKin(list, startIndex, sacrificedIndex, kin) \o more :
               startIndex \in 0..SizeMinusOne(list),
               more \in SurvivingKin(list, sacrificesIndexes, kin, k + 1) }

\* element x put into the sequence s before position i
InsertAt(s, i, x) ==
  [k \in 1..(Len(s) + 1) |->
     IF k < i THEN s[k] ELSE IF k = i THEN x ELSE s[k - 1]]

\* std::sort with the comparator ScoreGreater on the first k entries of a
\* list that may hold an entry many times: every arrangement in which no
\* element is followed by one with a greater score
RECURSIVE SortedFrom(_, _)
SortedFrom(list, k) ==
  IF k = 0 THEN { << >> }
  ELSE UNION { { InsertAt(s, i, list[k]) :
                   i \in { j \in 1..k :
                             /\ j = 1 \/ ~ScoreGreater(list[k], s[j - 1])
                             /\ j = k \/ ~ScoreGreater(s[j], list[k]) } } :
               s \in SortedFrom(list, k - 1) }

\* spawnNewGeneration(generation, murderCount)
CallSpawnNewGeneration ==
  /\ call.fn = "spawnNewGeneration"
  /\ call.at = "entry"
  /\ LET altruism == p.challenge = CHALLENGE_ALTRUISM
         passers == IF altruism
                    THEN CollectFrom(grid, peeps, CHALLENGE_ALTRUISM, 1)
                    ELSE CollectParents(grid, peeps)
         sacrificesIndexes == IF altruism THEN SacrificesFrom(grid, peeps, 1)
                              ELSE << >>
         kinship == altruism /\ call.generation > generationToApplyKinship
         divides == kinship /\ sacrificesIndexes # << >>
         undefined == divides
                        /\ Zero32(RandomUintDivisor(0, SizeMinusOne(passers)))
     IN  \/ \* randomUint() % 0 stops the process
            /\ undefined
            /\ call' = [call EXCEPT !.at = "fault"]
            /\ UNCHANGED <<grid, peeps, pheromones, parents>>
         \/ \* every remainder is defined, or yields some value: the loop
            \* over an empty parents runs no iteration
            \E chosen \in
                 (IF ~kinship THEN { passers }
                  ELSE IF undefined THEN { << >> }
                  ELSE UNION { SurvivingKin(passers, sacrificesIndexes, kin, 1) :
                               kin \in [Indices -> [Indices -> BOOLEAN]] }) :
              \E sorted \in SortedFrom(chosen, Len(chosen)) :
                /\ parents' = sorted
                /\ call' = [call EXCEPT
                              !.at = "returned",
                              !.result = Len(sorted),
                              !.logged = << call.generation, Len(sorted),
                                            murderCount >>,
                              !.initializer =
                                 IF Len(sorted) # 0
                                 THEN "initializeNewGeneration"
                                 ELSE "initializeGeneration0"]
                /\ \E w \in (IF Len(sorted) # 0 THEN InitializeNewGeneration
                                               ELSE InitializeGeneration0) :
                     grid' = w.grid /\ peeps' = w.peeps
                /\ pheromones' = SignalsZeroFill
  /\ UNCHANGED <<p, deathQueue, moveQueue, runMode, currentGeneration,
                 murderCount, pc, simulationStep, forDone, singleBy, bpc,
                 boundaryLog, verdict, sig, genome, nnet, ff>>

NextSpawn == CallSpawnNewGeneration

SpecSpawn == InitSpawn /\ [][NextSpawn]_vars

\* C30: extinction is handled without fault under every challenge,
\* CHALLENGE_ALTRUISM included: when no agent qualifies as a parent, even
\* with a generation number above 10 and a non-empty sacrifice set,
\* spawnNewGeneration completes normally, reports zero survivors and
\* initialises generation 0 anew with random genomes.
C30_ExtinctionWithoutFault ==
  call.fn = "spawnNewGeneration" =>
    /\ call.at # "fault"
    /\ (call.at = "returned" /\ parents = << >>) =>
         /\ call.result = 0
         /\ call.logged = << call.generation, 0, murderCount >>
         /\ call.initializer = "initializeGeneration0"
         /\ \A i \in Indices : peeps[i].genome = "random" /\ peeps[i].alive

====
